---- MODULE Spec2Model ----
(***************************************************************************)
(* A model of the journey-tracking core of usf-reach-safe: journey         *)
(* creation (StartJourney.handleSubmit), the active-journey view           *)
(* (ActiveJourney: fetchJourneyData, the check-in timer effect,            *)
(* handleCheckIn, handleArrivedSafely, handleNotSafe), the geolocation     *)
(* hook (useLocationTracking), the public tracking view's realtime         *)
(* subscription (TrackJourney) and the route estimator                     *)
(* (calculateTravelTime).                                                  *)
(*                                                                         *)
(* The store (the remote relational database) is modelled by its tables;   *)
(* every await of the source is a point where other handlers, timers and   *)
(* callbacks may run, so each handler is cut into one action per await.    *)
(***************************************************************************)
EXTENDS Integers, Sequences, FiniteSets, TLC

VARIABLES
  \* ---- the store (supabase tables) ----
  journeys,           \* journeys: journey id -> row, or NoRow
  journey_contacts,   \* journey_contacts rows, in insertion order
  notifications_log,  \* notifications_log rows, in insertion order
  journey_steps,      \* journey_steps rows, in insertion order
  journey_checkins,   \* journey_checkins rows, in insertion order
  journey_locations,  \* journey_locations rows, in insertion order
  clock,              \* wall-clock time (new Date()), in minutes
  \* ---- StartJourney page ----
  form,               \* the form's useState fields
  selectedContacts,   \* useState<Set<string>>
  calculatedDuration, \* useState<number | null>, NoNumber for null
  routeSteps,         \* useState<RouteStep[]>
  loading,            \* useState(false): the submit button is disabled while true
  submit,             \* the handleSubmit invocation in flight
  toast,              \* the last toast shown
  navigatedTo,        \* the route the page navigated to
  \* ---- calculateTravelTime (one call) ----
  estPc,              \* where the call stands: idle, an await, or done
  estArgs,            \* its arguments origin and destination
  estCoords,          \* its locals originCoords and destCoords
  estRouting,         \* what the routing service answered
  estResult,          \* what the promise resolved to
  \* ---- useLocationTracking (one component using the hook) ----
  hookMounted,        \* the component that calls the hook is mounted
  isActive,           \* the hook's isActive argument at the last render
  hasCleanup,         \* the last effect run returned its cleanup function
  watchId,            \* the effect closure's watchId (NoNumber: unassigned)
  liveWatches,        \* navigator.geolocation: the ids of the registered watches
  clearedWatches,     \* the ids clearWatch was called with
  location,           \* useState<LocationData | null>
  locationError,      \* useState<string | null> ("" for null)
  locationWrites,     \* journeys updates sent and not yet executed by the store
  samplesDelivered,   \* number of positions the watch has delivered
  \* ---- TrackJourney (the public tracking page, one per viewer) ----
  viewerId,           \* useParams().id of each viewer's page ("" when not mounted)
  channel,            \* the viewer's realtime channel: none, joining or joined
  inbox,              \* change events sent to the viewer's channel, not yet handled
  viewJourney,        \* useState<JourneyData | null>
  viewLoading,        \* useState(true)
  viewCenter,         \* mapCenter: useState({ lat, lng })
  viewFetches,        \* the fetchJourney calls in flight
  rowUpdates,         \* number of updates of each journeys row the travelers' pages have made
  eventsHandled,      \* number of times the viewer's change callback has run
  \* ---- ActiveJourney (the traveler's page of journey TrackedJourney) ----
  ajMounted,          \* the page is mounted
  journey,            \* useState<Journey | null>, NoRow for null
  contacts,           \* useState<Contact[]>: the contact ids
  checkIns,           \* useState<CheckIn[]>: the responses, newest first
  ajLoading,          \* useState(true)
  showCheckInDialog,  \* useState(false)
  timerDue,           \* when the interval of the timer effect fires next (NoNumber: no interval)
  ajFetches,          \* the fetchJourneyData calls in flight: the await each stands at
  ops,                \* the handler calls in flight, with the contacts their closure
                      \* captured and whether the page that made the call is still mounted
  handlerCalls,       \* number of handler calls made
  \* ---- the views with a breadcrumb trail (TrackJourney and ActiveJourney variants) ----
  viewKind,           \* which page the viewer has open: "track" or "active" ("" when none)
  locChannel,         \* the viewer's journey-locations channel: none, joining or joined
  locInbox,           \* INSERT events sent to that channel, not yet handled
  locationHistory,    \* useState<LocationPoint[]>
  undisturbed,        \* since the page was opened no row of its journey changed, no
                      \* select of its fetch failed and no fetch for another id is in flight
  stats,              \* useMemo: the journeyStats of the viewer's last render (NoRow before it)
  \* ---- Settings ----
  profiles,           \* the traveler's row of the profiles table
  checkInInterval,    \* useState('5') of the Settings page ("" while the page is not open)
  \* ---- confirmations ----
  showDialog,         \* useState(false) of EmergencyButton
  lastAnswer          \* the traveler's answer to the last confirmation asked

storeVars ==
  << journeys, journey_contacts, notifications_log, journey_steps,
     journey_checkins, journey_locations >>

createVars ==
  << form, selectedContacts, calculatedDuration, routeSteps, loading, submit,
     toast, navigatedTo >>

estVars == << estPc, estArgs, estCoords, estRouting, estResult >>

hookVars ==
  << hookMounted, isActive, hasCleanup, watchId, liveWatches, clearedWatches,
     location, locationError, locationWrites, samplesDelivered >>

viewVars ==
  << viewerId, channel, inbox, viewJourney, viewLoading, viewCenter, viewFetches,
     rowUpdates, eventsHandled >>

ajVars ==
  << ajMounted, journey, contacts, checkIns, ajLoading, showCheckInDialog,
     timerDue, ajFetches, ops, handlerCalls >>

trailVars ==
  << viewKind, locChannel, locInbox, locationHistory, undisturbed, stats >>

settingsVars == << profiles, checkInInterval >>

confirmVars == << showDialog, lastAnswer >>

\* the state of the StartJourney form and its submission
formVars ==
  << form, selectedContacts, calculatedDuration, routeSteps, loading, submit >>

vars ==
  << storeVars, clock, createVars, estVars, hookVars, viewVars, ajVars, trailVars,
     settingsVars, confirmVars >>

\* ------------------------------------------------------------ values

\* the last minute of the model's clock
MaxClock == 4

\* null / undefined of a number-valued field
NoNumber == -1

\* a journey id with no row in the table
NoRow == [absent |-> TRUE]

\* the ids gen_random_uuid() hands out to journeys
JourneyIds == {"j1", "j2"}

\* the traveler's contacts (rows of the contacts table)
Contacts == {"c1", "c2"}

\* safe_places rows the page has loaded: id -> name and address
SafePlaces == [p1 |-> [name |-> "Library", address |-> "1 Library Way"]]

\* values of the select / text inputs; "" is the empty input (the options of
\* the place select are the loaded safe places)
PlaceIdInputs == {"", "p1"}
AddressInputs == {"", "4202 E Fowler Ave"}

StartTypes == {"current", "place", "custom"}
DestTypes == {"place", "custom", "map"}

\* setCalculatedDuration(20) and calculatedDuration || 20
DefaultDuration == 20

\* the durations (minutes) and step lists the estimator can hand to the page
RouteDurations == {0, 7}
RouteStepLists ==
  { <<>>,
    << [instruction |-> "Start on the path", distance |-> 40, duration |-> 30],
       [instruction |-> "Arrive at destination", distance |-> 0, duration |-> 0] >> }

Forms ==
  [ startType : StartTypes, startPlaceId : PlaceIdInputs, startCustom : AddressInputs,
    destType : DestTypes, destPlaceId : PlaceIdInputs, destCustom : AddressInputs,
    destMapAddress : AddressInputs ]

\* ------------------------------------------------------------ store helpers

\* select ... .eq('journey_id', id): the rows of a table that belong to a journey
RowsOf(table, id) == SelectSeq(table, LAMBDA r : r.journey_id = id)

\* the rows of notifications_log of one journey and one type
Notifications(id, type) ==
  SelectSeq(notifications_log, LAMBDA r : r.journey_id = id /\ r.type = type)

\* A Set iterates in insertion order (Array.from(selectedContacts)), so it is
\* kept as the sequence of its members in insertion order.
Members(s) == {s[i] : i \in 1..Len(s)}

\* the ordered Sets over Contacts (no member twice)
ContactSets ==
  { s \in UNION {[1..n -> Contacts] : n \in 0..Cardinality(Contacts)} :
      \A i, k \in 1..Len(s) : i # k => s[i] # s[k] }

\* the id the store gives a new journeys row
JourneyIdOrder == <<"j1", "j2">>
FreshJourneyId ==
  LET free == SelectSeq(JourneyIdOrder, LAMBDA j : journeys[j] = NoRow)
  IN Head(free)

StoreFull == \A j \in JourneyIds : journeys[j] # NoRow

\* a sequence without its element at place i
WithoutIndex(seq, i) == SubSeq(seq, 1, i - 1) \o SubSeq(seq, i + 1, Len(seq))

\* ---- realtime publication ----
\* the tracking pages open on journeys
Viewers == {"v1"}
NotMounted == ""

\* the channel's filter `id=eq.${id}` against the id of a changed row
FilterMatches_Any(filterId, rowId) == TRUE

FilterMatches(filterId, rowId) == filterId = rowId

\* the viewer's channel has joined and its filter selects the row
Subscribed(v, rowId) ==
  channel[v] = "joined" /\ FilterMatches(viewerId[v], rowId)

\* The journeys table is in the supabase_realtime publication: an executed
\* update of row j is sent to every joined channel whose filter selects j.
\* The event carries the new row (payload.new).
ChangeEvent(j) == [table |-> "journeys", id |-> j, new |-> journeys'[j]]

PublishChange(j) ==
  inbox' = [v \in Viewers |->
              IF Subscribed(v, j) THEN Append(inbox[v], ChangeEvent(j))
              ELSE inbox[v]]

\* ------------------------------------------------------------ StartJourney
\* The form is edited and the route recalculated between submissions only: a
\* submission in flight works on the values its closure captured at the click.

NoSubmit == [pc |-> "idle"]
NoRoute == "none"

\* toggleContact(id)
toggleContact(id) ==
  /\ navigatedTo = NoRoute
  /\ submit = NoSubmit
  /\ selectedContacts' =
       IF id \in Members(selectedContacts)
       THEN SelectSeq(selectedContacts, LAMBDA c : c # id)
       ELSE Append(selectedContacts, id)
  /\ UNCHANGED << form, calculatedDuration, routeSteps, loading, submit, toast,
                  navigatedTo, storeVars, clock, estVars, hookVars, viewVars, ajVars, trailVars, settingsVars, confirmVars >>

\* calculateETA whose failure branches leave out setCalculatedDuration(20)
calculateETA_KeepsDuration(duration, steps) ==
  /\ navigatedTo = NoRoute
  /\ submit = NoSubmit
  /\ IF duration # NoNumber
     THEN /\ calculatedDuration' = duration
          /\ routeSteps' = steps
          /\ toast' = "Route calculated"
     ELSE /\ calculatedDuration' = calculatedDuration
          /\ routeSteps' = routeSteps
          /\ toast' = "Could not calculate exact time, using estimate"
  /\ UNCHANGED << form, selectedContacts, loading, submit, navigatedTo,
                  storeVars, clock, estVars, hookVars, viewVars, ajVars, trailVars, settingsVars, confirmVars >>

\* calculateETA(origin, destination), from the call of calculateTravelTime to
\* the setState calls; result is what calculateTravelTime resolved to
\* (NoNumber as duration: null, or a rejection)
calculateETA(duration, steps) ==
  /\ navigatedTo = NoRoute
  /\ submit = NoSubmit
  /\ IF duration # NoNumber
     THEN /\ calculatedDuration' = duration
          /\ routeSteps' = steps
          /\ toast' = "Route calculated"
     ELSE /\ calculatedDuration' = DefaultDuration
          /\ routeSteps' = routeSteps
          /\ toast' = "Could not calculate exact time, using estimate"
  /\ UNCHANGED << form, selectedContacts, loading, submit, navigatedTo,
                  storeVars, clock, estVars, hookVars, viewVars, ajVars, trailVars, settingsVars, confirmVars >>

\* handleSubmit: "Determine start location"
StartName(f) ==
  IF f.startType = "current" THEN "Current Location"
  ELSE IF f.startType = "place" /\ f.startPlaceId # ""
       THEN IF f.startPlaceId \in DOMAIN SafePlaces
            THEN SafePlaces[f.startPlaceId].name ELSE ""
  ELSE IF f.startType = "custom" /\ f.startCustom # "" THEN f.startCustom
  ELSE ""

\* handleSubmit: "Determine destination"
DestName(f) ==
  IF f.destType = "place" /\ f.destPlaceId # ""
  THEN IF f.destPlaceId \in DOMAIN SafePlaces
       THEN SafePlaces[f.destPlaceId].name ELSE ""
  ELSE IF f.destType = "custom" /\ f.destCustom # "" THEN f.destCustom
  ELSE IF f.destType = "map" /\ f.destMapAddress # "" THEN f.destMapAddress
  ELSE ""

\* the validation at the head of handleSubmit: the error message, or "" when
\* the form passes
NoContactsSelected_Dropped(selected) == FALSE

NoContactsSelected(selected) == Len(selected) = 0

ValidationError(f, selected) ==
  IF NoContactsSelected(selected) THEN "Please select at least one contact"
  ELSE IF StartName(f) = "" \/ DestName(f) = ""
       THEN "Please fill in all required fields"
  ELSE ""

\* calculatedDuration || 20
DurationOrDefault(d) == IF d = NoNumber \/ d = 0 THEN DefaultDuration ELSE d

\* handleSubmit, from the click to the first await (the journeys insert is sent)
handleSubmit ==
  /\ navigatedTo = NoRoute
  /\ ~loading
  /\ ~StoreFull
  /\ LET err == ValidationError(form, selectedContacts) IN
     IF err # ""
     THEN /\ toast' = err
          /\ UNCHANGED << loading, submit >>
     ELSE /\ loading' = TRUE
          /\ submit' = [ pc |-> "insertJourney",
                         startName |-> StartName(form), destName |-> DestName(form),
                         contacts |-> selectedContacts, steps |-> routeSteps,
                         now |-> clock,
                         eta |-> clock + DurationOrDefault(calculatedDuration),
                         journeyId |-> "" ]
          /\ UNCHANGED toast
  /\ UNCHANGED << form, selectedContacts, calculatedDuration, routeSteps,
                  navigatedTo, storeVars, clock, estVars, hookVars, viewVars, ajVars, trailVars, settingsVars, confirmVars >>

\* catch (error) { toast.error('Failed to start journey') } finally { setLoading(false) }
SubmitFailed ==
  /\ toast' = "Failed to start journey"
  /\ loading' = FALSE
  /\ submit' = NoSubmit
  /\ UNCHANGED navigatedTo

\* toast.success(...); navigate(`/journey/${journeyData.id}`); finally { setLoading(false) }
SubmitDone ==
  /\ toast' = "Journey started! Your contacts have been notified."
  /\ navigatedTo' = submit.journeyId
  /\ loading' = FALSE
  /\ submit' = NoSubmit

\* the row handleSubmit inserts into journeys (the other columns take their
\* defaults: end_time and the current position are null)
NewJourneyRow(id, s) ==
  [ id |-> id, status |-> "active",
    start_name |-> s.startName, dest_name |-> s.destName,
    start_time |-> s.now, eta_time |-> s.eta, end_time |-> NoNumber,
    current_latitude |-> NoNumber, current_longitude |-> NoNumber,
    location_updated_at |-> NoNumber ]

\* await supabase.from('journeys').insert({...}).select().single();
\* if (journeyError) throw journeyError
SubmitInsertJourney(ok) ==
  /\ submit.pc = "insertJourney"
  /\ IF ok
     THEN /\ journeys' = [journeys EXCEPT ![FreshJourneyId] = NewJourneyRow(FreshJourneyId, submit)]
          /\ submit' = [submit EXCEPT !.pc = "insertContacts", !.journeyId = FreshJourneyId]
          /\ UNCHANGED << toast, loading, navigatedTo >>
     ELSE /\ SubmitFailed
          /\ UNCHANGED journeys
  /\ UNCHANGED << form, selectedContacts, calculatedDuration, routeSteps,
                  journey_contacts, notifications_log, journey_steps,
                  journey_checkins, journey_locations, clock, estVars, hookVars, viewVars, ajVars, trailVars, settingsVars, confirmVars >>

\* await supabase.from('journey_contacts').insert(contactInserts);
\* if (contactError) throw contactError
SubmitInsertContacts(ok) ==
  /\ submit.pc = "insertContacts"
  /\ IF ok
     THEN /\ journey_contacts' = journey_contacts \o
               [i \in 1..Len(submit.contacts) |->
                  [journey_id |-> submit.journeyId, contact_id |-> submit.contacts[i]]]
          /\ submit' = [submit EXCEPT !.pc = "insertNotifications"]
          /\ UNCHANGED << toast, loading, navigatedTo >>
     ELSE /\ SubmitFailed
          /\ UNCHANGED journey_contacts
  /\ UNCHANGED << form, selectedContacts, calculatedDuration, routeSteps,
                  journeys, notifications_log, journey_steps,
                  journey_checkins, journey_locations, clock, estVars, hookVars, viewVars, ajVars, trailVars, settingsVars, confirmVars >>

\* await supabase.from('notifications_log').insert(notificationInserts): the
\* result is not inspected, so an error the store returns goes unnoticed
SubmitInsertNotifications(ok) ==
  /\ submit.pc = "insertNotifications"
  /\ notifications_log' =
       IF ok
       THEN notifications_log \o
              [i \in 1..Len(submit.contacts) |->
                 [journey_id |-> submit.journeyId, contact_id |-> submit.contacts[i],
                  type |-> "start"]]
       ELSE notifications_log
  /\ IF Len(submit.steps) > 0
     THEN /\ submit' = [submit EXCEPT !.pc = "insertSteps"]
          /\ UNCHANGED << toast, loading, navigatedTo >>
     ELSE SubmitDone
  /\ UNCHANGED << form, selectedContacts, calculatedDuration, routeSteps,
                  journeys, journey_contacts, journey_steps,
                  journey_checkins, journey_locations, clock, estVars, hookVars, viewVars, ajVars, trailVars, settingsVars, confirmVars >>

\* if (routeSteps.length > 0) await supabase.from('journey_steps').insert(stepsInserts)
SubmitInsertSteps(ok) ==
  /\ submit.pc = "insertSteps"
  /\ journey_steps' =
       IF ok
       THEN journey_steps \o
              [i \in 1..Len(submit.steps) |->
                 [journey_id |-> submit.journeyId, step_number |-> i,
                  instruction |-> submit.steps[i].instruction]]
       ELSE journey_steps
  /\ SubmitDone
  /\ UNCHANGED << form, selectedContacts, calculatedDuration, routeSteps,
                  journeys, journey_contacts, notifications_log,
                  journey_checkins, journey_locations, clock, estVars, hookVars, viewVars, ajVars, trailVars, settingsVars, confirmVars >>

\* ------------------------------------------------------------ calculateTravelTime
\* Coordinates are [lat, lng] in hundredths of a degree; the points of the
\* model lie on one meridian, where the haversine formula reduces to
\* R * (difference of latitude in radians).

MaxLat == 3
Points == [lat : 0..MaxLat, lng : {0}]
Addresses == {"Library"}

\* an argument of calculateTravelTime: string | { lat, lng }
Endpoints ==
  [kind : {"coords"}, at : Points] \cup [kind : {"address"}, text : Addresses]

NoCoords == [none |-> TRUE]
NullResult == [kind |-> "null"]
Pending == [kind |-> "pending"]

\* const R = 6371e3, for one hundredth of a degree of latitude:
\* 6371000 * PI / 180 / 100 = 1111.949 m, rounded to the metre
MetersPerCentiDegree == 1112

Abs(x) == IF x < 0 THEN 0 - x ELSE x

\* calculateDistance (haversine), in metres, for two points of one meridian
calculateDistance(a, b) == MetersPerCentiDegree * Abs(a.lat - b.lat)

CeilDiv(a, b) == (a + b - 1) \div b

\* const walkingSpeedMps = 1.34112;
\* Math.ceil(distanceInMeters / walkingSpeedMps / 60), in whole minutes
WalkingSpeedMmPerSec == 134112
DurationInMinutes(distanceInMeters) ==
  CeilDiv(distanceInMeters * 100000, WalkingSpeedMmPerSec * 60)

\* the distances (metres) of the routes the routing service answers with
RouteDistances == {0, 80, 81, 3000}

\* the maneuvers of a step of the routing service's answer
Maneuvers == {"depart", "arrive", "turn", "roundabout"}

\* "Generate human-readable instruction": the instruction's fixed words
Instruction(maneuver) ==
  IF maneuver = "depart" THEN "Start on"
  ELSE IF maneuver = "arrive" THEN "Arrive at destination"
  ELSE IF maneuver = "turn" THEN "Turn onto"
  ELSE IF maneuver = "end of road" THEN "At the end of the road, turn onto"
  ELSE IF maneuver = "fork" THEN "At the fork, keep onto"
  ELSE IF maneuver = "continue" THEN "Continue on"
  ELSE maneuver

\* the answers of the routing service that carry a route: routes[0]
RouteAnswers ==
  [ kind : {"route"}, distance : RouteDistances,
    steps : {<<>>, <<"depart", "arrive">>, <<"depart", "turn", "roundabout", "arrive">>} ]

\* a straight-line estimate in place of the null
RoutingFailureResult_Haversine(originCoords, destCoords) ==
  [ kind |-> "value",
    duration |-> DurationInMinutes(calculateDistance(originCoords, destCoords)),
    distance |-> calculateDistance(originCoords, destCoords),
    steps |-> <<>> ]

\* what calculateTravelTime returns when the routing request fails or the
\* answer has no routes[0]: "return null" after the if, and in the catch
RoutingFailureResult(originCoords, destCoords) == NullResult

\* what calculateTravelTime returns for a route
RouteResult(route) ==
  [ kind |-> "value",
    duration |-> DurationInMinutes(route.distance),
    distance |-> route.distance,
    steps |-> [i \in 1..Len(route.steps) |->
                 [instruction |-> Instruction(route.steps[i]),
                  maneuver_type |-> route.steps[i]]] ]

\* the call, up to its first await
calculateTravelTime(origin, destination) ==
  /\ estPc \in {"idle", "done"}
  /\ estArgs' = [origin |-> origin, destination |-> destination]
  /\ estRouting' = "not asked"
  /\ estResult' = Pending
  /\ IF origin.kind = "address"
     THEN /\ estPc' = "geocodeOrigin"
          /\ estCoords' = [origin |-> NoCoords, destination |-> NoCoords]
     ELSE IF destination.kind = "address"
     THEN /\ estPc' = "geocodeDestination"
          /\ estCoords' = [origin |-> origin.at, destination |-> NoCoords]
     ELSE /\ estPc' = "route"
          /\ estCoords' = [origin |-> origin.at, destination |-> destination.at]
  /\ UNCHANGED << storeVars, clock, createVars, hookVars, viewVars, ajVars, trailVars, settingsVars, confirmVars >>

\* the answers of the address search: a rejection, an empty array, a first hit
GeocodeAnswers ==
  [kind : {"throws", "empty"}] \cup [kind : {"hit"}, at : Points]

\* typeof origin === 'string': await fetch(search); if (!data[0]) return null
GeocodeOrigin(answer) ==
  /\ estPc = "geocodeOrigin"
  /\ IF answer.kind = "hit"
     THEN /\ UNCHANGED estResult
          /\ IF estArgs.destination.kind = "address"
             THEN /\ estPc' = "geocodeDestination"
                  /\ estCoords' = [estCoords EXCEPT !.origin = answer.at]
             ELSE /\ estPc' = "route"
                  /\ estCoords' = [origin |-> answer.at,
                                   destination |-> estArgs.destination.at]
     ELSE /\ estPc' = "done"
          /\ estResult' = NullResult
          /\ UNCHANGED estCoords
  /\ UNCHANGED << estArgs, estRouting, storeVars, clock, createVars, hookVars, viewVars, ajVars, trailVars, settingsVars, confirmVars >>

\* typeof destination === 'string': await fetch(search); if (!data[0]) return null
GeocodeDestination(answer) ==
  /\ estPc = "geocodeDestination"
  /\ IF answer.kind = "hit"
     THEN /\ estPc' = "route"
          /\ estCoords' = [estCoords EXCEPT !.destination = answer.at]
          /\ UNCHANGED estResult
     ELSE /\ estPc' = "done"
          /\ estResult' = NullResult
          /\ UNCHANGED estCoords
  /\ UNCHANGED << estArgs, estRouting, storeVars, clock, createVars, hookVars, viewVars, ajVars, trailVars, settingsVars, confirmVars >>

\* await fetch(route); await response.json(): a rejection (network or parse
\* failure), an answer without routes[0], or an answer with a route
RouteAnswered(answer) ==
  /\ estPc = "route"
  /\ estPc' = "done"
  /\ estRouting' = answer.kind
  /\ estResult' =
       IF answer.kind = "route" THEN RouteResult(answer)
       ELSE RoutingFailureResult(estCoords.origin, estCoords.destination)
  /\ UNCHANGED << estArgs, estCoords, storeVars, clock, createVars, hookVars, viewVars, ajVars, trailVars, settingsVars, confirmVars >>

\* ------------------------------------------------------------ useLocationTracking
\* The hook's journeyId argument is the id of the journey of the page.

TrackedJourney == "j1"

\* the watch ids the platform hands out: watchPosition returns an
\* implementation-defined id greater than zero for a registered watch, and 0,
\* registering nothing, when the document is not fully active
MaxWatchId == 2
WatchIds == 1..MaxWatchId

\* the positions the watch delivers
MaxSamples == 2
MaxWritesInFlight == 2
SamplePoints == [lat : 1..2, lng : {0}]
NoLocation == [none |-> TRUE]

\* the effect's cleanup: if (watchId) navigator.geolocation.clearWatch(watchId)
WatchIdTruthy_OffByOne(id) == id > 1

WatchIdTruthy(id) == id # NoNumber /\ id # 0

\* the watches the cleanup of the last effect run clears
Cleared ==
  IF hasCleanup /\ WatchIdTruthy(watchId) THEN {watchId} ELSE {}

\* What startTracking can get: NoNumber when navigator.geolocation is missing
\* (watchPosition is not called), 0 when watchPosition registers nothing, or
\* the id of the watch it registered, which no watch still registered has.
WatchOutcomes(cleared) ==
  {NoNumber, 0} \cup (WatchIds \ (liveWatches \ cleared))

\* The effect body. if (!journeyId || !isActive) return; otherwise
\* startTracking() and return the cleanup.
Effect(active, outcome, cleared) ==
  /\ hasCleanup' = active
  /\ watchId' = IF active THEN outcome ELSE NoNumber
  /\ locationError' =
       IF active /\ outcome = NoNumber
       THEN "Geolocation is not supported by your browser"
       ELSE locationError
  /\ toast' = IF active /\ outcome = NoNumber
              THEN "Location tracking not available" ELSE toast
  /\ liveWatches' = (liveWatches \ cleared) \cup
                    (IF active /\ outcome \in WatchIds THEN {outcome} ELSE {})
  /\ clearedWatches' = clearedWatches \cup cleared

\* the component mounts: the effect runs for the first time
HookMount(active, outcome) ==
  /\ ~hookMounted
  /\ hookMounted' = TRUE
  /\ isActive' = active
  /\ Effect(active, outcome, {})
  /\ UNCHANGED << location, locationWrites, samplesDelivered,
                  storeVars, clock, estVars,
                  form, selectedContacts, calculatedDuration, routeSteps,
                  loading, submit, navigatedTo, viewVars, ajVars, trailVars, settingsVars, confirmVars >>

\* a render with another isActive: the cleanup of the last effect run, then
\* the effect again
HookRerender(outcome) ==
  /\ hookMounted
  /\ isActive' = ~isActive
  /\ Effect(~isActive, outcome, Cleared)
  /\ UNCHANGED << hookMounted, location, locationWrites, samplesDelivered,
                  storeVars, clock, estVars,
                  form, selectedContacts, calculatedDuration, routeSteps,
                  loading, submit, navigatedTo, viewVars, ajVars, trailVars, settingsVars, confirmVars >>

\* the component unmounts: the cleanup of the last effect run
HookUnmount ==
  /\ hookMounted
  /\ hookMounted' = FALSE
  /\ liveWatches' = liveWatches \ Cleared
  /\ clearedWatches' = clearedWatches \cup Cleared
  /\ hasCleanup' = FALSE
  /\ watchId' = NoNumber
  /\ UNCHANGED << isActive, location, locationError, locationWrites,
                  samplesDelivered, storeVars, clock, createVars, estVars, viewVars, ajVars, trailVars, settingsVars, confirmVars >>

\* the success callback of a registered watch, up to its await: setLocation,
\* setError(null), and the journeys update is sent
PositionSuccess(w, p) ==
  /\ w \in liveWatches
  /\ samplesDelivered < MaxSamples
  /\ Len(locationWrites) < MaxWritesInFlight
  /\ samplesDelivered' = samplesDelivered + 1
  /\ location' = IF hookMounted THEN p ELSE location
  /\ locationError' = IF hookMounted THEN "" ELSE locationError
  /\ locationWrites' = Append(locationWrites,
       [current_latitude |-> p.lat, current_longitude |-> p.lng,
        location_updated_at |-> clock])
  /\ UNCHANGED << hookMounted, isActive, hasCleanup, watchId, liveWatches,
                  clearedWatches, storeVars, clock, createVars, estVars, viewVars, ajVars, trailVars, settingsVars, confirmVars >>

\* an error callback that gives the watch up: clearWatch after any error
PositionError_ClearsWatch(w, code) ==
  /\ w \in liveWatches
  /\ hookMounted
  /\ locationError' = code
  /\ toast' = IF code = "PERMISSION_DENIED"
              THEN "Location permission denied. Please enable location access."
              ELSE toast
  /\ liveWatches' = liveWatches \ {w}
  /\ clearedWatches' = clearedWatches \cup {w}
  /\ UNCHANGED << hookMounted, isActive, hasCleanup, watchId,
                  location, locationWrites, samplesDelivered,
                  storeVars, clock, estVars,
                  form, selectedContacts, calculatedDuration, routeSteps,
                  loading, submit, navigatedTo, viewVars, ajVars, trailVars,
                  settingsVars, confirmVars >>

\* the error callback of a registered watch: setError(err.message), and a
\* toast when err.code === err.PERMISSION_DENIED
PositionError(w, code) ==
  /\ w \in liveWatches
  /\ hookMounted
  /\ locationError' = code
  /\ toast' = IF code = "PERMISSION_DENIED"
              THEN "Location permission denied. Please enable location access."
              ELSE toast
  /\ UNCHANGED << hookMounted, isActive, hasCleanup, watchId, liveWatches,
                  clearedWatches, location, locationWrites, samplesDelivered,
                  storeVars, clock, estVars,
                  form, selectedContacts, calculatedDuration, routeSteps,
                  loading, submit, navigatedTo, viewVars, ajVars, trailVars, settingsVars, confirmVars >>

\* the store executes one of the journeys updates in flight (in any order);
\* a failed update is caught and logged
LocationWriteExecuted(i, ok) ==
  /\ i \in 1..Len(locationWrites)
  /\ locationWrites' = SubSeq(locationWrites, 1, i - 1) \o
                       SubSeq(locationWrites, i + 1, Len(locationWrites))
  /\ IF ok /\ journeys[TrackedJourney] # NoRow
     THEN /\ journeys' = [journeys EXCEPT ![TrackedJourney] =
               [@ EXCEPT !.current_latitude = locationWrites[i].current_latitude,
                         !.current_longitude = locationWrites[i].current_longitude,
                         !.location_updated_at = locationWrites[i].location_updated_at]]
          /\ PublishChange(TrackedJourney)
     ELSE UNCHANGED << journeys, inbox >>
  /\ UNCHANGED << hookMounted, isActive, hasCleanup, watchId, liveWatches,
                  clearedWatches, location, locationError, samplesDelivered,
                  journey_contacts, notifications_log, journey_steps,
                  journey_checkins, journey_locations, clock, createVars, estVars,
                  viewerId, channel, viewJourney, viewLoading, viewCenter,
                  viewFetches, rowUpdates, eventsHandled, ajVars, trailVars, settingsVars, confirmVars >>

\* time passes, and an open prompt that goes unanswered for a minute is
\* recorded as no_response
Tick_PromptTimesOut ==
  /\ clock < MaxClock
  /\ timerDue # clock
  /\ clock' = clock + 1
  /\ journey_checkins' =
       IF showCheckInDialog
       THEN Append(journey_checkins,
                   [journey_id |-> TrackedJourney, response |-> "no_response"])
       ELSE journey_checkins
  /\ UNCHANGED << journeys, journey_contacts, notifications_log, journey_steps,
                  journey_locations, createVars, estVars, hookVars, viewVars, ajVars,
                  trailVars, settingsVars, confirmVars >>

\* time passes, one minute at a time; an interval that is due fires first
Tick ==
  /\ clock < MaxClock
  /\ timerDue # clock
  /\ clock' = clock + 1
  /\ UNCHANGED << storeVars, createVars, estVars, hookVars, viewVars, ajVars, trailVars, settingsVars, confirmVars >>

\* ------------------------------------------------------------ TrackJourney
\* The public tracking page /track/:id. Its effect (deps [id]) calls
\* fetchJourney() and subscribes a channel to the changes of the journeys row
\* with its id; the cleanup removes the channel.

\* bounds on the updates the store executes, the events in flight to one
\* channel and the fetches one page has in flight
MaxRowUpdates == 2
MaxInbox == 1
MaxFetches == 1

\* useState({ lat: 28.0587, lng: -82.4139 }), in whole degrees
DefaultCenter == [lat |-> 28, lng |-> -82]
DestinationCenter == [lat |-> 29, lng |-> -81]

\* the updates the traveler's pages send: .from('journeys').update(patch).eq('id', j),
\* a status transition and a position
JourneyPatches == {"alert_triggered", "location"}

Patched(row, patch) ==
  CASE patch = "alert_triggered" -> [row EXCEPT !.status = "alert_triggered"]
    [] patch = "location" ->
         [row EXCEPT !.current_latitude = 1, !.current_longitude = 1,
                     !.location_updated_at = clock]

\* the store executes an update of row j sent by a traveler's page
JourneyRowUpdate(j, patch) ==
  /\ journeys[j] # NoRow
  /\ rowUpdates["j1"] + rowUpdates["j2"] < MaxRowUpdates
  /\ \A v \in Viewers : Subscribed(v, j) => Len(inbox[v]) < MaxInbox
  /\ journeys' = [journeys EXCEPT ![j] = Patched(@, patch)]
  /\ PublishChange(j)
  /\ rowUpdates' = [rowUpdates EXCEPT ![j] = @ + 1]
  /\ undisturbed' = [v \in Viewers |->
       undisturbed[v] /\ ~(viewKind[v] # "" /\ viewerId[v] = j)]
  /\ UNCHANGED << stats, journey_contacts, notifications_log, journey_steps,
                  journey_checkins, journey_locations, clock, createVars,
                  estVars, hookVars, viewerId, channel, viewJourney,
                  viewLoading, viewCenter, viewFetches, eventsHandled, ajVars,
                  viewKind, locChannel, locInbox, locationHistory, settingsVars, confirmVars >>

FetchSent == [kind |-> "sent"]

\* fetchJourney(), up to its await
NewFetch(j) == [id |-> j, answer |-> FetchSent]

\* the page is opened for journey j: the effect calls fetchJourney() and
\* subscribes the channel
ViewerMount(v, j) ==
  /\ viewerId[v] = NotMounted
  /\ journeys[j] # NoRow
  /\ viewerId' = [viewerId EXCEPT ![v] = j]
  /\ channel' = [channel EXCEPT ![v] = "joining"]
  /\ viewFetches' = [viewFetches EXCEPT ![v] = << NewFetch(j) >>]
  /\ UNCHANGED << storeVars, clock, createVars, estVars, hookVars, inbox,
                  viewJourney, viewLoading, viewCenter, rowUpdates, eventsHandled, ajVars, trailVars, settingsVars, confirmVars >>

\* the realtime server acknowledges the subscription
ChannelJoined(v) ==
  /\ channel[v] = "joining"
  /\ channel' = [channel EXCEPT ![v] = "joined"]
  /\ UNCHANGED << storeVars, clock, createVars, estVars, hookVars, viewerId,
                  inbox, viewJourney, viewLoading, viewCenter, viewFetches,
                  rowUpdates, eventsHandled, ajVars, trailVars, settingsVars, confirmVars >>

\* the route parameter changes: the cleanup removes the channel, then the
\* effect runs for the new id
ViewerNavigate(v, j) ==
  /\ viewerId[v] \notin {NotMounted, j}
  /\ journeys[j] # NoRow
  /\ Len(viewFetches[v]) < MaxFetches
  /\ viewerId' = [viewerId EXCEPT ![v] = j]
  /\ channel' = [channel EXCEPT ![v] = "joining"]
  /\ inbox' = [inbox EXCEPT ![v] = <<>>]
  /\ viewFetches' = [viewFetches EXCEPT ![v] = Append(@, NewFetch(j))]
  /\ UNCHANGED << storeVars, clock, createVars, estVars, hookVars,
                  viewJourney, viewLoading, viewCenter, rowUpdates, eventsHandled, ajVars, trailVars, settingsVars, confirmVars >>

\* the page is closed: the cleanup removes the channel; what the fetches in
\* flight resolve to no longer reaches any state
ViewerUnmount(v) ==
  /\ viewerId[v] # NotMounted
  /\ viewerId' = [viewerId EXCEPT ![v] = NotMounted]
  /\ channel' = [channel EXCEPT ![v] = "none"]
  /\ inbox' = [inbox EXCEPT ![v] = <<>>]
  /\ viewFetches' = [viewFetches EXCEPT ![v] = <<>>]
  /\ viewJourney' = [viewJourney EXCEPT ![v] = NoRow]
  /\ viewLoading' = [viewLoading EXCEPT ![v] = TRUE]
  /\ viewCenter' = [viewCenter EXCEPT ![v] = DefaultCenter]
  /\ UNCHANGED << storeVars, clock, createVars, estVars, hookVars,
                  rowUpdates, eventsHandled, ajVars, trailVars, settingsVars, confirmVars >>

\* the channel's callback runs for the next event: () => { fetchJourney() }
EventHandled(v) ==
  /\ inbox[v] # <<>>
  /\ Len(viewFetches[v]) < MaxFetches
  /\ inbox' = [inbox EXCEPT ![v] = Tail(@)]
  /\ eventsHandled' = [eventsHandled EXCEPT ![v] = @ + 1]
  /\ viewFetches' = [viewFetches EXCEPT ![v] = Append(@, NewFetch(viewerId[v]))]
  /\ UNCHANGED << storeVars, clock, createVars, estVars, hookVars, viewerId,
                  channel, viewJourney, viewLoading, viewCenter, rowUpdates, ajVars, trailVars, settingsVars, confirmVars >>

\* the store executes the select of a fetch: .eq('id', id).single()
FetchExecuted(v, i, ok) ==
  /\ i \in 1..Len(viewFetches[v])
  /\ viewFetches[v][i].answer = FetchSent
  /\ viewFetches' = [viewFetches EXCEPT ![v][i].answer =
       IF ok /\ journeys[viewFetches[v][i].id] # NoRow
       THEN [kind |-> "data", row |-> journeys[viewFetches[v][i].id]]
       ELSE [kind |-> "error"]]
  /\ UNCHANGED << storeVars, clock, createVars, estVars, hookVars, viewerId,
                  channel, inbox, viewJourney, viewLoading, viewCenter,
                  rowUpdates, eventsHandled, ajVars, trailVars, settingsVars, confirmVars >>

Truthy(n) == n # NoNumber /\ n # 0

\* fetchJourney() after its await: setJourney(data) and the map centre, or the
\* error toast; finally setLoading(false). geocoded: the maps script is loaded
\* and the geocoder finds the destination.
FetchResolved(v, i, geocoded) ==
  /\ i \in 1..Len(viewFetches[v])
  /\ viewFetches[v][i].answer # FetchSent
  /\ LET answer == viewFetches[v][i].answer
     IN IF answer.kind = "data"
        THEN /\ viewJourney' = [viewJourney EXCEPT ![v] = answer.row]
             /\ viewCenter' = [viewCenter EXCEPT ![v] =
                  IF Truthy(answer.row.current_latitude) /\ Truthy(answer.row.current_longitude)
                  THEN [lat |-> answer.row.current_latitude,
                        lng |-> answer.row.current_longitude]
                  ELSE IF geocoded THEN DestinationCenter ELSE @]
             /\ UNCHANGED toast
        ELSE /\ toast' = "Failed to load journey"
             /\ UNCHANGED << viewJourney, viewCenter >>
  /\ viewLoading' = [viewLoading EXCEPT ![v] = FALSE]
  /\ viewFetches' = [viewFetches EXCEPT ![v] =
       SubSeq(@, 1, i - 1) \o SubSeq(@, i + 1, Len(@))]
  /\ UNCHANGED << storeVars, clock, estVars, hookVars, viewerId, channel, inbox,
                  rowUpdates, eventsHandled,
                  form, selectedContacts, calculatedDuration, routeSteps,
                  loading, submit, navigatedTo, ajVars, trailVars, settingsVars, confirmVars >>

\* ------------------------------------------------------------ views with a breadcrumb trail
\* The TrackJourney variant with the breadcrumb trail ("track") and the
\* ActiveJourney variant with it ("active"). Their mount effect (deps on id)
\* calls the fetch and subscribes: "track" a channel to the UPDATEs of its
\* journeys row and a channel to the INSERTs of its journey_locations rows,
\* "active" the latter only. The cleanup removes the channels.

\* bound on the rows of journey_locations
MaxLocations == 2

TrailKinds == {"track", "active"}

\* the latitude of the next point inserted for journey j: the traveler walks
\* north, one step for each sample
NextLatitude(j) == Len(RowsOf(journey_locations, j)) + 1

\* .from('journey_locations').select('latitude, longitude, timestamp')
\*   .eq('journey_id', id).order('timestamp', { ascending: true })
StoredTrail(j) ==
  LET rows == RowsOf(journey_locations, j)
  IN [k \in 1..Len(rows) |->
        [latitude |-> rows[k].latitude, longitude |-> rows[k].longitude,
         timestamp |-> rows[k].timestamp]]

\* The awaits of fetchJourney ("track") and of fetchJourneyData ("active"),
\* in order. The awaits whose data the model does not keep are folded into
\* their neighbour: in "track" the profiles select into the journeys select
\* before it (setJourney follows it) and the address search for the
\* destination into the journey_steps select before it; in "active" the
\* journey_contacts and journey_checkins selects into the journey_steps select.
FetchPlan(kind) ==
  IF kind = "track"
  THEN << "journeys", "journey_locations", "journey_steps" >>
  ELSE << "journeys", "journey_steps", "journey_locations" >>

\* the selects whose data the trail and the status display are built from
ReconcilingSelects == {"journeys", "journey_locations"}

\* a call of the fetch, up to its first await
NewTrailFetch(j, kind) ==
  [id |-> j, kind |-> kind, at |-> 1, answer |-> FetchSent, row |-> NoRow, live |-> TRUE]

\* the fetches the mount effect starts
MountFetches_None(j, kind) == <<>>

MountFetches(j, kind) == << NewTrailFetch(j, kind) >>

\* the channels the effect subscribes
ChannelsOf(kind) ==
  IF kind = "track" THEN {"journeys", "journey_locations"} ELSE {"journey_locations"}

\* the channels the cleanup removes
RemovedChannels_JourneysOnly(kind) == ChannelsOf(kind) \ {"journey_locations"}

RemovedChannels(kind) == ChannelsOf(kind)

\* the component is gone: the fetches in flight run on, and their setState
\* calls reach no state
Dead(fetches) == [k \in 1..Len(fetches) |-> [fetches[k] EXCEPT !.live = FALSE]]

\* the live fetches in flight
LiveFetches(v) == SelectSeq(viewFetches[v], LAMBDA f : f.live)

\* the page is opened for journey j
TrailMount(v, j, kind) ==
  /\ viewerId[v] = NotMounted
  /\ journeys[j] # NoRow
  /\ Len(viewFetches[v]) < MaxFetches
  /\ viewerId' = [viewerId EXCEPT ![v] = j]
  /\ viewKind' = [viewKind EXCEPT ![v] = kind]
  /\ viewFetches' = [viewFetches EXCEPT ![v] = @ \o MountFetches(j, kind)]
  /\ channel' = [channel EXCEPT ![v] =
       IF "journeys" \in ChannelsOf(kind) THEN "joining" ELSE @]
  /\ locChannel' = [locChannel EXCEPT ![v] =
       IF "journey_locations" \in ChannelsOf(kind) THEN "joining" ELSE @]
  /\ undisturbed' = [undisturbed EXCEPT ![v] = TRUE]
  /\ UNCHANGED << stats, storeVars, clock, createVars, estVars, hookVars, ajVars,
                  inbox, viewJourney, viewLoading, viewCenter, rowUpdates,
                  eventsHandled, locInbox, locationHistory, settingsVars, confirmVars >>

\* the realtime server acknowledges a subscription
TrailChannelJoined(v, table) ==
  /\ IF table = "journeys"
     THEN /\ channel[v] = "joining"
          /\ channel' = [channel EXCEPT ![v] = "joined"]
          /\ UNCHANGED locChannel
     ELSE /\ locChannel[v] = "joining"
          /\ locChannel' = [locChannel EXCEPT ![v] = "joined"]
          /\ UNCHANGED channel
  /\ UNCHANGED << stats, storeVars, clock, createVars, estVars, hookVars, ajVars,
                  viewerId, inbox, viewJourney, viewLoading, viewCenter,
                  viewFetches, rowUpdates, eventsHandled,
                  viewKind, locInbox, locationHistory, undisturbed, settingsVars, confirmVars >>

\* the cleanup of the effect: supabase.removeChannel(...) for each channel;
\* the events not yet handled no longer reach a callback
Cleanup(v) ==
  /\ channel' = [channel EXCEPT ![v] =
       IF "journeys" \in RemovedChannels(viewKind[v]) THEN "none" ELSE @]
  /\ inbox' = [inbox EXCEPT ![v] =
       IF "journeys" \in RemovedChannels(viewKind[v]) THEN <<>> ELSE @]
  /\ locChannel' = [locChannel EXCEPT ![v] =
       IF "journey_locations" \in RemovedChannels(viewKind[v]) THEN "none" ELSE @]
  /\ locInbox' = [locInbox EXCEPT ![v] =
       IF "journey_locations" \in RemovedChannels(viewKind[v]) THEN <<>> ELSE @]

\* the page is closed
TrailUnmount(v) ==
  /\ viewKind[v] # ""
  /\ Cleanup(v)
  /\ viewerId' = [viewerId EXCEPT ![v] = NotMounted]
  /\ viewKind' = [viewKind EXCEPT ![v] = ""]
  /\ viewFetches' = [viewFetches EXCEPT ![v] = Dead(@)]
  /\ viewJourney' = [viewJourney EXCEPT ![v] = NoRow]
  /\ viewLoading' = [viewLoading EXCEPT ![v] = TRUE]
  /\ viewCenter' = [viewCenter EXCEPT ![v] = DefaultCenter]
  /\ locationHistory' = [locationHistory EXCEPT ![v] = <<>>]
  /\ UNCHANGED << stats, storeVars, clock, createVars, estVars, hookVars, ajVars,
                  rowUpdates, eventsHandled, undisturbed, settingsVars, confirmVars >>

\* the route parameter changes: the cleanup, then the effect for the new id;
\* the state of the component stays
TrailNavigate(v, j) ==
  /\ viewKind[v] # ""
  /\ viewerId[v] # j
  /\ journeys[j] # NoRow
  /\ Len(viewFetches[v]) < MaxFetches
  /\ viewerId' = [viewerId EXCEPT ![v] = j]
  /\ viewFetches' = [viewFetches EXCEPT ![v] = @ \o MountFetches(j, viewKind[v])]
  /\ channel' = [channel EXCEPT ![v] =
       IF "journeys" \in ChannelsOf(viewKind[v]) THEN "joining"
       ELSE IF "journeys" \in RemovedChannels(viewKind[v]) THEN "none" ELSE @]
  /\ inbox' = [inbox EXCEPT ![v] =
       IF "journeys" \in RemovedChannels(viewKind[v]) THEN <<>> ELSE @]
  /\ locChannel' = [locChannel EXCEPT ![v] = "joining"]
  /\ locInbox' = [locInbox EXCEPT ![v] =
       IF "journey_locations" \in RemovedChannels(viewKind[v]) THEN <<>> ELSE @]
  /\ undisturbed' = [undisturbed EXCEPT ![v] = LiveFetches(v) = <<>>]
  /\ UNCHANGED << stats, storeVars, clock, createVars, estVars, hookVars, ajVars,
                  viewJourney, viewLoading, viewCenter, rowUpdates,
                  eventsHandled, viewKind, locationHistory, settingsVars, confirmVars >>

\* the store executes an insert into journey_locations (policy "Users can
\* insert journey locations") and sends it to the joined channels whose filter
\* journey_id=eq.${id} selects the row
LocationInserted(j, lat) ==
  /\ journeys[j] # NoRow
  /\ Len(journey_locations) < MaxLocations
  /\ \A v \in Viewers :
       (locChannel[v] = "joined" /\ FilterMatches(viewerId[v], j))
         => Len(locInbox[v]) < MaxInbox
  /\ LET row == [journey_id |-> j, latitude |-> lat, longitude |-> 0,
                 timestamp |-> clock]
     IN /\ journey_locations' = Append(journey_locations, row)
        /\ locInbox' = [v \in Viewers |->
             IF locChannel[v] = "joined" /\ FilterMatches(viewerId[v], j)
             THEN Append(locInbox[v], [table |-> "journey_locations", id |-> j, new |-> row])
             ELSE locInbox[v]]
  /\ undisturbed' = [v \in Viewers |-> undisturbed[v] /\ viewerId[v] # j]
  /\ UNCHANGED << stats, journeys, journey_contacts, notifications_log, journey_steps,
                  journey_checkins, clock, createVars, estVars, hookVars, ajVars,
                  viewVars, viewKind, locChannel, locationHistory, settingsVars, confirmVars >>

\* the callback of the journeys channel:
\* setJourney(prev => prev ? { ...prev, ...newData } : prev), and
\* setMapCenter when the new row has a position
TrailJourneyEvent(v) ==
  /\ viewKind[v] = "track"
  /\ inbox[v] # <<>>
  /\ LET newData == Head(inbox[v]).new
     IN /\ viewJourney' = [viewJourney EXCEPT ![v] = IF @ = NoRow THEN @ ELSE newData]
        /\ viewCenter' = [viewCenter EXCEPT ![v] =
             IF Truthy(newData.current_latitude) /\ Truthy(newData.current_longitude)
             THEN [lat |-> newData.current_latitude, lng |-> newData.current_longitude]
             ELSE @]
  /\ inbox' = [inbox EXCEPT ![v] = Tail(@)]
  /\ eventsHandled' = [eventsHandled EXCEPT ![v] = @ + 1]
  /\ UNCHANGED << storeVars, clock, createVars, estVars, hookVars, ajVars,
                  viewerId, channel, viewLoading, viewFetches, rowUpdates,
                  trailVars, settingsVars, confirmVars >>

\* the callback of the journey-locations channel:
\* setLocationHistory(prev => [...prev, { latitude, longitude, timestamp }])
TrailLocationEvent(v) ==
  /\ viewKind[v] # ""
  /\ locInbox[v] # <<>>
  /\ LET newLocation == Head(locInbox[v]).new
     IN locationHistory' = [locationHistory EXCEPT ![v] =
          Append(@, [latitude |-> newLocation.latitude,
                     longitude |-> newLocation.longitude,
                     timestamp |-> newLocation.timestamp])]
  /\ locInbox' = [locInbox EXCEPT ![v] = Tail(@)]
  /\ eventsHandled' = [eventsHandled EXCEPT ![v] = @ + 1]
  /\ UNCHANGED << stats, storeVars, clock, createVars, estVars, hookVars, ajVars,
                  viewerId, channel, inbox, viewJourney, viewLoading, viewCenter,
                  viewFetches, rowUpdates, viewKind, locChannel, undisturbed, settingsVars, confirmVars >>

\* the request a fetch is waiting for
AwaitedBy(f) == FetchPlan(f.kind)[f.at]

\* the request of a fetch is answered: by the store with { data, error }, by
\* the address search with a hit or none
TrailFetchAnswered(v, i, ok) ==
  /\ i \in 1..Len(viewFetches[v])
  /\ viewFetches[v][i].answer = FetchSent
  /\ LET f == viewFetches[v][i]
         data == CASE AwaitedBy(f) = "journeys" -> [kind |-> "data", row |-> journeys[f.id]]
                   [] AwaitedBy(f) = "journey_locations" ->
                        [kind |-> "data", rows |-> StoredTrail(f.id)]
                   [] OTHER -> [kind |-> "data"]
         failed == ~ok \/ (AwaitedBy(f) = "journeys" /\ journeys[f.id] = NoRow)
     IN /\ viewFetches' = [viewFetches EXCEPT ![v][i].answer =
             IF failed THEN [kind |-> "error"] ELSE data]
        /\ undisturbed' = [undisturbed EXCEPT ![v] =
             @ /\ ~(failed /\ f.live /\ AwaitedBy(f) \in ReconcilingSelects)]
  /\ UNCHANGED << stats, storeVars, clock, createVars, estVars, hookVars, ajVars,
                  viewerId, channel, inbox, viewJourney, viewLoading, viewCenter,
                  rowUpdates, eventsHandled, viewKind, locChannel, locInbox,
                  locationHistory, settingsVars, confirmVars >>

\* the fetch has run to its end (finally { setLoading(false) })
TrailFetchEnded(v, i) ==
  /\ viewFetches' = [viewFetches EXCEPT ![v] = WithoutIndex(@, i)]
  /\ viewLoading' = [viewLoading EXCEPT ![v] = IF viewFetches[v][i].live THEN FALSE ELSE @]

\* the fetch goes on to its next await
TrailFetchNext(v, i, row) ==
  /\ viewFetches' = [viewFetches EXCEPT ![v][i] =
       [@ EXCEPT !.at = @ + 1, !.answer = FetchSent, !.row = row]]
  /\ UNCHANGED viewLoading

\* "Use current location if available, otherwise geocode destination": after
\* the last select of fetchJourney, with data the row the fetch read
TrailCenter(center, data, geocoded) ==
  IF Truthy(data.current_latitude) /\ Truthy(data.current_longitude)
  THEN [lat |-> data.current_latitude, lng |-> data.current_longitude]
  ELSE IF geocoded THEN DestinationCenter ELSE center

\* The fetch continues after the await that was answered. The selects a fetch
\* makes after its component is gone read the store and reach no state: such
\* a fetch ends with the await it stands at.
TrailFetchResumed(v, i) ==
  /\ i \in 1..Len(viewFetches[v])
  /\ viewFetches[v][i].answer # FetchSent
  /\ LET f == viewFetches[v][i]
         answer == f.answer
         awaited == AwaitedBy(f)
     IN CASE awaited = "journeys" /\ answer.kind = "error" ->
               \* if (journeyError) throw journeyError; catch: the toast
               /\ toast' = IF f.kind = "track" THEN "Failed to load journey"
                           ELSE "Failed to load journey data"
               /\ TrailFetchEnded(v, i)
               /\ UNCHANGED << viewJourney, viewCenter, locationHistory >>
          [] ~f.live /\ ~(awaited = "journeys" /\ answer.kind = "error") ->
               /\ TrailFetchEnded(v, i)
               /\ UNCHANGED << toast, viewJourney, viewCenter, locationHistory >>
          [] f.live /\ awaited = "journeys" /\ answer.kind = "data" ->
               \* setJourney(journeyData)
               /\ viewJourney' = [viewJourney EXCEPT ![v] = answer.row]
               /\ TrailFetchNext(v, i, answer.row)
               /\ UNCHANGED << toast, viewCenter, locationHistory >>
          [] f.live /\ awaited = "journey_locations" ->
               \* if (locationsData) setLocationHistory(locationsData)
               /\ locationHistory' = [locationHistory EXCEPT ![v] =
                    IF answer.kind = "data" THEN answer.rows ELSE @]
               /\ IF f.at = Len(FetchPlan(f.kind))
                  THEN TrailFetchEnded(v, i)
                  ELSE TrailFetchNext(v, i, f.row)
               /\ UNCHANGED << toast, viewJourney, viewCenter >>
          [] f.live /\ awaited = "journey_steps" ->
               \* "track": setMapCenter(...), of the row or of the destination
               \* the address search found
               /\ viewCenter' = [viewCenter EXCEPT ![v] =
                    IF f.kind = "track" THEN TrailCenter(@, f.row, answer.kind = "data")
                    ELSE @]
               /\ IF f.at = Len(FetchPlan(f.kind))
                  THEN TrailFetchEnded(v, i)
                  ELSE TrailFetchNext(v, i, f.row)
               /\ UNCHANGED << toast, viewJourney, locationHistory >>
  /\ UNCHANGED << stats, storeVars, clock, formVars, navigatedTo, estVars, hookVars, ajVars,
                  viewerId, channel, inbox, rowUpdates, eventsHandled,
                  viewKind, locChannel, locInbox, undisturbed, settingsVars, confirmVars >>

\* ---- journeyStats ----

\* the longest breadcrumb list the statistics are computed for
MaxTrailLen == 3

\* the breadcrumbs of the model: points of one meridian, stamped by the store
TrailPoints == [latitude : 0..MaxLat, longitude : {0}, timestamp : 1..MaxClock]

\* the lists select('*').order('timestamp', { ascending: true }) can return
OrderedTrails ==
  UNION { { h \in [1..n -> TrailPoints] :
              \A k \in 1..(n - 1) : h[k].timestamp <= h[k + 1].timestamp }
          : n \in 0..MaxTrailLen }

\* new Date(timestamp).getTime(): milliseconds, of a time kept in minutes
getTime(timestamp) == timestamp * 60 * 1000

\* a / b as JavaScript computes it, kept exact: numerator and denominator
Quotient(a, b) == [num |-> a, den |-> b]

\* the number 0 where a quotient is expected
Zero == Quotient(0, 1)

\* calculateTotalDistance of '@/utils/calculateDistance': the sum of the
\* haversine distances between consecutive points
RECURSIVE calculateTotalDistance(_)
calculateTotalDistance(points) ==
  IF Len(points) < 2 THEN 0
  ELSE calculateDistance([lat |-> points[1].latitude, lng |-> points[1].longitude],
                         [lat |-> points[2].latitude, lng |-> points[2].longitude])
       + calculateTotalDistance(Tail(points))

\* journeyStats without the durationSeconds > 0 test
journeyStats_Unguarded(history) ==
  IF Len(history) < 2 THEN [distance |-> 0, avgSpeed |-> Zero, duration |-> 0]
  ELSE LET distance == calculateTotalDistance(history)
           startTime == getTime(history[1].timestamp)
           endTime == getTime(history[Len(history)].timestamp)
           durationSeconds == (endTime - startTime) \div 1000
       IN [distance |-> distance,
           avgSpeed |-> Quotient(distance, durationSeconds),
           duration |-> durationSeconds]

\* const journeyStats = useMemo(() => { ... }, [locationHistory])
journeyStats(history) ==
  IF Len(history) < 2 THEN [distance |-> 0, avgSpeed |-> Zero, duration |-> 0]
  ELSE LET distance == calculateTotalDistance(history)
           startTime == getTime(history[1].timestamp)
           endTime == getTime(history[Len(history)].timestamp)
           durationSeconds == (endTime - startTime) \div 1000
           avgSpeed == IF durationSeconds > 0
                       THEN Quotient(distance, durationSeconds)
                       ELSE Zero
       IN [distance |-> distance, avgSpeed |-> avgSpeed, duration |-> durationSeconds]

\* a render of TrackJourney past its early returns (loading, no journey):
\* the memo is computed from the list the state holds
RenderStats(v) ==
  /\ viewKind[v] = "track"
  /\ ~viewLoading[v]
  /\ viewJourney[v] # NoRow
  /\ stats' = [stats EXCEPT ![v] = journeyStats(locationHistory[v])]
  /\ UNCHANGED << storeVars, clock, createVars, estVars, hookVars, viewVars, ajVars,
                  viewKind, locChannel, locInbox, locationHistory, undisturbed, settingsVars, confirmVars >>

\* ------------------------------------------------------------ ActiveJourney
\* The traveler's page /journey/:id of journey TrackedJourney. The store
\* answers every request with data or with an error ({ data, error }); the
\* requests never throw.

\* setInterval(..., 3 * 60 * 1000), in minutes
CheckInInterval == 3

\* the handler calls the traveler makes
MaxHandlerCalls == 2

Responses == {"yes", "no"}

\* what the store does with a write of a handler: it executes it
WriteOutcomes == {TRUE}

\* the contact ids of the journey's journey_contacts rows, in row order
JourneyContacts ==
  LET rows == RowsOf(journey_contacts, TrackedJourney)
  IN [i \in 1..Len(rows) |-> rows[i].contact_id]

\* .order('timestamp', { ascending: false })
Reversed(seq) == [i \in 1..Len(seq) |-> seq[Len(seq) + 1 - i]]

StoredCheckIns ==
  LET rows == RowsOf(journey_checkins, TrackedJourney)
  IN Reversed([i \in 1..Len(rows) |-> rows[i].response])

\* the timer effect without its test of the status
TimerEffect_AnyStatus(row) ==
  timerDue' = clock + CheckInInterval

\* The timer effect (deps [journey]) for a new journey object: the cleanup of
\* the last run clears its interval; a new interval is set when the status is
\* active.
TimerEffect(row) ==
  timerDue' = IF row.status = "active" THEN clock + CheckInInterval ELSE NoNumber

\* the page renders its content (not "Loading..." or "Journey not found")
ContentShown == ajMounted /\ ~ajLoading /\ journey # NoRow

\* {isActive && (...)}: the two buttons; the open dialog is modal
ButtonsShown ==
  ContentShown /\ journey.status = "active" /\ ~showCheckInDialog

\* the page is opened: the mount effect calls fetchJourneyData()
AjMount ==
  /\ ~ajMounted
  /\ ajMounted' = TRUE
  /\ ajFetches' = << "journey" >>
  /\ navigatedTo' = "/journey"
  /\ UNCHANGED << storeVars, clock, formVars, toast, estVars, hookVars, viewVars,
                  journey, contacts, checkIns, ajLoading, showCheckInDialog,
                  timerDue, ops, handlerCalls, trailVars, settingsVars, confirmVars >>

\* the handler calls in flight outlive the page that made them
Detached(calls) == [k \in 1..Len(calls) |-> [calls[k] EXCEPT !.live = FALSE]]

\* what leaving the page does: the cleanup of the timer effect clears the
\* interval; the state of the component and of its EmergencyButton is gone, and
\* what the fetches in flight resolve to no longer reaches any state
Unmounted ==
  /\ ajMounted' = FALSE
  /\ showDialog' = FALSE
  /\ journey' = NoRow
  /\ contacts' = <<>>
  /\ checkIns' = <<>>
  /\ ajLoading' = TRUE
  /\ showCheckInDialog' = FALSE
  /\ timerDue' = NoNumber
  /\ ajFetches' = <<>>

\* the traveler leaves the page
AjUnmount ==
  /\ ajMounted
  /\ Unmounted
  /\ ops' = Detached(ops)
  /\ navigatedTo' = "/"
  /\ UNCHANGED << storeVars, clock, formVars, toast, estVars, hookVars, viewVars,
                  handlerCalls, trailVars, settingsVars, lastAnswer >>

\* fetchJourneyData: the journeys select .eq('id', id).single();
\* if (journeyError) throw journeyError; setJourney(journeyData)
FetchJourney(i, ok) ==
  /\ i \in 1..Len(ajFetches)
  /\ ajFetches[i] = "journey"
  /\ IF ok /\ journeys[TrackedJourney] # NoRow
     THEN /\ journey' = journeys[TrackedJourney]
          /\ TimerEffect(journeys[TrackedJourney])
          \* {isActive && ... <MapContainer onEmergency={handleNotSafe} />}: the
          \* EmergencyButton is rendered for an active journey only
          /\ showDialog' = (showDialog /\ journeys[TrackedJourney].status = "active")
          /\ ajFetches' = [ajFetches EXCEPT ![i] = "contacts"]
          /\ UNCHANGED << toast, ajLoading >>
     ELSE /\ toast' = "Failed to load journey data"
          /\ ajLoading' = FALSE
          /\ ajFetches' = WithoutIndex(ajFetches, i)
          /\ UNCHANGED << journey, timerDue, showDialog >>
  /\ UNCHANGED << storeVars, clock, formVars, navigatedTo, estVars, hookVars,
                  viewVars, ajMounted, contacts, checkIns, showCheckInDialog,
                  ops, handlerCalls, trailVars, settingsVars, lastAnswer >>

\* fetchJourneyData: the journey_contacts select; if (contactsData) setContacts(...)
FetchContacts(i, ok) ==
  /\ i \in 1..Len(ajFetches)
  /\ ajFetches[i] = "contacts"
  /\ contacts' = IF ok THEN JourneyContacts ELSE contacts
  /\ ajFetches' = [ajFetches EXCEPT ![i] = "checkins"]
  /\ UNCHANGED << storeVars, clock, createVars, estVars, hookVars, viewVars,
                  ajMounted, journey, checkIns, ajLoading, showCheckInDialog,
                  timerDue, ops, handlerCalls, trailVars, settingsVars, confirmVars >>

\* fetchJourneyData: the journey_checkins select; if (checkInsData)
\* setCheckIns(checkInsData); finally setLoading(false)
FetchCheckIns(i, ok) ==
  /\ i \in 1..Len(ajFetches)
  /\ ajFetches[i] = "checkins"
  /\ checkIns' = IF ok THEN StoredCheckIns ELSE checkIns
  /\ ajLoading' = FALSE
  /\ ajFetches' = WithoutIndex(ajFetches, i)
  /\ UNCHANGED << storeVars, clock, createVars, estVars, hookVars, viewVars,
                  ajMounted, journey, contacts, showCheckInDialog,
                  timerDue, ops, handlerCalls, trailVars, settingsVars, confirmVars >>

\* the interval callback: setShowCheckInDialog(true)
TimerFires ==
  /\ ajMounted
  /\ timerDue = clock
  /\ showCheckInDialog' = TRUE
  /\ timerDue' = clock + CheckInInterval
  /\ UNCHANGED << storeVars, clock, createVars, estVars, hookVars, viewVars,
                  ajMounted, journey, contacts, checkIns, ajLoading, ajFetches,
                  ops, handlerCalls, trailVars, settingsVars, confirmVars >>

\* onOpenChange: the traveler closes the dialog without answering
DismissCheckIn ==
  /\ ContentShown
  /\ showCheckInDialog
  /\ showCheckInDialog' = FALSE
  /\ UNCHANGED << storeVars, clock, createVars, estVars, hookVars, viewVars,
                  ajMounted, journey, contacts, checkIns, ajLoading, timerDue,
                  ajFetches, ops, handlerCalls, trailVars, settingsVars, confirmVars >>

\* a handler call up to its first await, with the contacts of its closure
NewOp(kind, response, pc) ==
  [kind |-> kind, response |-> response, pc |-> pc, contacts |-> contacts,
   live |-> TRUE]

Called(op) ==
  /\ handlerCalls < MaxHandlerCalls
  /\ handlerCalls' = handlerCalls + 1
  /\ ops' = Append(ops, op)
  /\ UNCHANGED << storeVars, clock, createVars, estVars, hookVars, viewVars,
                  ajMounted, journey, contacts, checkIns, ajLoading,
                  showCheckInDialog, timerDue, ajFetches, trailVars, settingsVars >>

\* handleCheckIn(response): a button of the dialog
handleCheckIn(response) ==
  /\ ContentShown
  /\ showCheckInDialog
  /\ Called(NewOp("checkin", response, "checkin"))
  /\ UNCHANGED confirmVars

\* window.confirm(message): what the traveler answers
Confirm(confirmed) == lastAnswer' = IF confirmed THEN "ok" ELSE "cancel"

\* a handler that returns before its try block
Returned ==
  UNCHANGED << storeVars, clock, createVars, estVars, hookVars, viewVars, ajVars,
               trailVars, settingsVars >>

\* handleArrivedSafely: if (!confirm(...)) return
handleArrivedSafely(confirmed) ==
  /\ ButtonsShown
  /\ ~showDialog
  /\ Confirm(confirmed)
  /\ IF confirmed THEN Called(NewOp("arrived", "", "status")) ELSE Returned
  /\ UNCHANGED showDialog

\* handleNotSafe that goes on whatever confirm(...) returned
handleNotSafe_Unconfirmed(confirmed) ==
  /\ ButtonsShown
  /\ ~showDialog
  /\ Confirm(confirmed)
  /\ Called(NewOp("notsafe", "no", "status"))
  /\ UNCHANGED showDialog

\* handleNotSafe: if (!confirm(...)) return
handleNotSafe(confirmed) ==
  /\ ButtonsShown
  /\ ~showDialog
  /\ Confirm(confirmed)
  /\ IF confirmed THEN Called(NewOp("notsafe", "no", "status")) ELSE Returned
  /\ UNCHANGED showDialog

\* EmergencyButton: <button onClick={() => setShowDialog(true)}>, rendered in
\* the MapContainer of an active journey
EmergencyButtonClicked ==
  /\ ButtonsShown
  /\ ~showDialog
  /\ showDialog' = TRUE
  /\ UNCHANGED << storeVars, clock, createVars, estVars, hookVars, viewVars, ajVars,
                  trailVars, settingsVars, lastAnswer >>

\* EmergencyButton: Cancel, or onOpenChange(false)
EmergencyCancelled ==
  /\ showDialog
  /\ showDialog' = FALSE
  /\ lastAnswer' = "cancel"
  /\ Returned

\* EmergencyButton.handleEmergency: setShowDialog(false); onClick(), the page's
\* handleNotSafe, which asks its own confirm(...)
handleEmergency(confirmed) ==
  /\ showDialog
  /\ showDialog' = FALSE
  /\ Confirm(confirmed)
  /\ IF confirmed THEN Called(NewOp("notsafe", "no", "status")) ELSE Returned

\* {!isActive && (<Button onClick={handleNotSafe}>Send Emergency Alert)}: the
\* page variant with the manual emergency button shows it for a journey that
\* is not active; it calls the same handleNotSafe
SendEmergencyAlert(confirmed) ==
  /\ ContentShown
  /\ journey.status # "active"
  /\ ~showCheckInDialog
  /\ Confirm(confirmed)
  /\ IF confirmed THEN Called(NewOp("notsafe", "no", "status")) ELSE Returned
  /\ UNCHANGED showDialog

\* a handler end that refetches and never calls setShowCheckInDialog(false)
Refetched_KeepsDialog(live, closeDialog) ==
  /\ live => Len(ajFetches) < MaxFetches
  /\ ajFetches' = IF live THEN Append(ajFetches, "journey") ELSE ajFetches
  /\ UNCHANGED << ajMounted, journey, contacts, checkIns, ajLoading, timerDue,
                  showCheckInDialog >>

\* what the end of a handler does to its page: fetchJourneyData(), and
\* setShowCheckInDialog(false) at the end of handleCheckIn; they reach no
\* state once that page is gone
Refetched(live, closeDialog) ==
  /\ live => Len(ajFetches) < MaxFetches
  /\ ajFetches' = IF live THEN Append(ajFetches, "journey") ELSE ajFetches
  /\ showCheckInDialog' = IF live /\ closeDialog THEN FALSE ELSE showCheckInDialog
  /\ UNCHANGED << ajMounted, journey, contacts, checkIns, ajLoading, timerDue >>

\* await supabase.from('journey_checkins').insert({ journey_id: id, response })
\* in handleCheckIn and handleNotSafe; after it handleCheckIn('yes') ends
OpInsertCheckIn(i, ok) ==
  /\ i \in 1..Len(ops)
  /\ ops[i].pc = "checkin"
  /\ journey_checkins' =
       IF ok THEN Append(journey_checkins,
                         [journey_id |-> TrackedJourney, response |-> ops[i].response])
       ELSE journey_checkins
  /\ IF ops[i].kind = "checkin" /\ ops[i].response = "yes"
     THEN /\ toast' = "Check-in recorded"
          /\ Refetched(ops[i].live, TRUE)
          /\ ops' = WithoutIndex(ops, i)
     ELSE /\ ops' = [ops EXCEPT ![i].pc = IF ops[i].kind = "checkin" THEN "status" ELSE "notify"]
          /\ UNCHANGED << toast, ajMounted, journey, contacts, checkIns, ajLoading,
                          showCheckInDialog, timerDue, ajFetches >>
  /\ UNCHANGED << journeys, journey_contacts, notifications_log, journey_steps,
                  journey_locations, clock, formVars, navigatedTo, estVars,
                  hookVars, viewVars, handlerCalls, trailVars, settingsVars, confirmVars >>

\* a handler that writes back the row its page has loaded, with the new status
StatusPatch_WholeRow(kind, row) ==
  LET snapshot == IF journey = NoRow THEN row ELSE journey
  IN IF kind = "arrived"
     THEN [snapshot EXCEPT !.status = "completed_safe", !.end_time = clock]
     ELSE [snapshot EXCEPT !.status = "alert_triggered"]

\* an arrival update that writes the status alone, without the end_time
StatusPatch_StatusOnly(kind, row) ==
  IF kind = "arrived"
  THEN [row EXCEPT !.status = "completed_safe"]
  ELSE [row EXCEPT !.status = "alert_triggered"]

\* the update a handler sends to the journeys row
StatusPatch(kind, row) ==
  IF kind = "arrived"
  THEN [row EXCEPT !.status = "completed_safe", !.end_time = clock]
  ELSE [row EXCEPT !.status = "alert_triggered"]

\* await supabase.from('journeys').update({...}).eq('id', id) in the three
\* handlers
OpUpdateStatus(i, ok) ==
  /\ i \in 1..Len(ops)
  /\ ops[i].pc = "status"
  /\ IF ok /\ journeys[TrackedJourney] # NoRow
     THEN /\ journeys' = [journeys EXCEPT ![TrackedJourney] = StatusPatch(ops[i].kind, @)]
          /\ PublishChange(TrackedJourney)
     ELSE UNCHANGED << journeys, inbox >>
  /\ ops' = [ops EXCEPT ![i].pc = IF ops[i].kind = "notsafe" THEN "checkin" ELSE "notify"]
  /\ UNCHANGED << journey_contacts, notifications_log, journey_steps,
                  journey_checkins, journey_locations, clock, createVars,
                  estVars, hookVars, viewerId, channel, viewJourney, viewLoading,
                  viewCenter, viewFetches, rowUpdates, eventsHandled,
                  ajMounted, journey, contacts, checkIns, ajLoading,
                  showCheckInDialog, timerDue, ajFetches, handlerCalls, trailVars, settingsVars, confirmVars >>

\* contacts.map(contact => ({ journey_id: id, contact_id: contact.id, type }))
NotificationInserts(cs, type) ==
  [k \in 1..Len(cs) |->
     [journey_id |-> TrackedJourney, contact_id |-> cs[k], type |-> type]]

\* await supabase.from('notifications_log').insert(notificationInserts) and
\* the end of the handler: the toast and fetchJourneyData(), or navigate('/')
OpInsertNotifications(i, ok) ==
  /\ i \in 1..Len(ops)
  /\ ops[i].pc = "notify"
  /\ notifications_log' =
       IF ok
       THEN notifications_log \o
            NotificationInserts(ops[i].contacts,
                                IF ops[i].kind = "arrived" THEN "arrival_safe"
                                ELSE "danger_alert")
       ELSE notifications_log
  /\ CASE ops[i].kind = "arrived" ->
            /\ toast' = "Journey completed! Your contacts have been notified."
            /\ navigatedTo' = "/"
            /\ Unmounted
            /\ ops' = Detached(WithoutIndex(ops, i))
       [] ops[i].kind = "checkin" ->
            /\ toast' = "Alert sent to your contacts!"
            /\ Refetched(ops[i].live, TRUE)
            /\ ops' = WithoutIndex(ops, i)
            /\ UNCHANGED << navigatedTo, showDialog >>
       [] ops[i].kind = "notsafe" ->
            /\ toast' = "Emergency alert sent to your contacts!"
            /\ Refetched(ops[i].live, FALSE)
            /\ ops' = WithoutIndex(ops, i)
            /\ UNCHANGED << navigatedTo, showDialog >>
  /\ UNCHANGED << journeys, journey_contacts, journey_steps, journey_checkins,
                  journey_locations, clock, formVars, estVars, hookVars,
                  viewVars, handlerCalls, trailVars, settingsVars, lastAnswer >>

\* ------------------------------------------------------------ Settings

\* <SelectItem value="3" | "5" | "10" | "15">
IntervalChoices == {"3", "5", "10", "15"}

\* parseInt(checkInInterval), for the values the select can hold
parseInt(str) ==
  CASE str = "3" -> 3 [] str = "5" -> 5 [] str = "10" -> 10 [] str = "15" -> 15

\* data.default_checkin_interval?.toString() || '5'
IntervalToString(n) ==
  CASE n = 3 -> "3" [] n = 5 -> "5" [] n = 10 -> "10" [] n = 15 -> "15"
    [] OTHER -> "5"

\* the Settings page is opened and fetchProfile has run to its end: the select
\* shows the stored interval, or '5' when the select of the profile failed
SettingsMount(ok) ==
  /\ ~ajMounted
  /\ checkInInterval = ""
  /\ checkInInterval' =
       IF ok THEN IntervalToString(profiles.default_checkin_interval) ELSE "5"
  /\ UNCHANGED << storeVars, clock, createVars, estVars, hookVars, viewVars, ajVars,
                  trailVars, profiles, confirmVars >>

\* onValueChange={setCheckInInterval}
setCheckInInterval(value) ==
  /\ checkInInterval # ""
  /\ checkInInterval' = value
  /\ UNCHANGED << storeVars, clock, createVars, estVars, hookVars, viewVars, ajVars,
                  trailVars, profiles, confirmVars >>

\* handleSave: profiles.update({ ..., default_checkin_interval:
\* parseInt(checkInInterval) }).eq('id', user?.id); if (error) throw error
handleSave(ok) ==
  /\ checkInInterval # ""
  /\ IF ok
     THEN /\ profiles' = [profiles EXCEPT
                !.default_checkin_interval = parseInt(checkInInterval)]
          /\ toast' = "Settings saved successfully"
     ELSE /\ toast' = "Failed to save settings"
          /\ UNCHANGED profiles
  /\ UNCHANGED << storeVars, clock, formVars, navigatedTo, estVars, hookVars,
                  viewVars, ajVars, trailVars, checkInInterval, confirmVars >>

\* the traveler leaves the Settings page
SettingsUnmount ==
  /\ checkInInterval # ""
  /\ checkInInterval' = ""
  /\ UNCHANGED << storeVars, clock, createVars, estVars, hookVars, viewVars, ajVars,
                  trailVars, profiles, confirmVars >>

\* ------------------------------------------------------------ specifications

\* an empty store
StoreEmpty ==
  /\ journeys = [j \in JourneyIds |-> NoRow]
  /\ journey_contacts = <<>>
  /\ notifications_log = <<>>
  /\ journey_steps = <<>>
  /\ journey_checkins = <<>>
  /\ journey_locations = <<>>

\* the StartJourney page is not open
CreateParked ==
  /\ form = [ startType |-> "current", startPlaceId |-> "", startCustom |-> "",
              destType |-> "place", destPlaceId |-> "", destCustom |-> "",
              destMapAddress |-> "" ]
  /\ selectedContacts = <<>>
  /\ calculatedDuration = NoNumber
  /\ routeSteps = <<>>
  /\ loading = FALSE
  /\ submit = NoSubmit
  /\ toast = ""
  /\ navigatedTo = NoRoute

\* no call of calculateTravelTime is in progress
EstimatorParked ==
  /\ estPc = "idle"
  /\ estArgs = [origin |-> NoCoords, destination |-> NoCoords]
  /\ estCoords = [origin |-> NoCoords, destination |-> NoCoords]
  /\ estRouting = "not asked"
  /\ estResult = Pending

\* the hook is not in use
HookParked ==
  /\ hookMounted = FALSE
  /\ isActive = FALSE
  /\ hasCleanup = FALSE
  /\ watchId = NoNumber
  /\ liveWatches = {}
  /\ clearedWatches = {}
  /\ location = NoLocation
  /\ locationError = ""
  /\ locationWrites = <<>>
  /\ samplesDelivered = 0

\* no tracking page is open
ViewersParked ==
  /\ viewerId = [v \in Viewers |-> NotMounted]
  /\ channel = [v \in Viewers |-> "none"]
  /\ inbox = [v \in Viewers |-> <<>>]
  /\ viewJourney = [v \in Viewers |-> NoRow]
  /\ viewLoading = [v \in Viewers |-> TRUE]
  /\ viewCenter = [v \in Viewers |-> DefaultCenter]
  /\ viewFetches = [v \in Viewers |-> <<>>]
  /\ rowUpdates = [j \in JourneyIds |-> 0]
  /\ eventsHandled = [v \in Viewers |-> 0]

\* the ActiveJourney page is not open
ActiveJourneyParked ==
  /\ ajMounted = FALSE
  /\ journey = NoRow
  /\ contacts = <<>>
  /\ checkIns = <<>>
  /\ ajLoading = TRUE
  /\ showCheckInDialog = FALSE
  /\ timerDue = NoNumber
  /\ ajFetches = <<>>
  /\ ops = <<>>
  /\ handlerCalls = 0

\* no page with a breadcrumb trail is open
TrailParked ==
  /\ viewKind = [v \in Viewers |-> ""]
  /\ locChannel = [v \in Viewers |-> "none"]
  /\ locInbox = [v \in Viewers |-> <<>>]
  /\ locationHistory = [v \in Viewers |-> <<>>]
  /\ undisturbed = [v \in Viewers |-> TRUE]
  /\ stats = [v \in Viewers |-> NoRow]

\* the Settings page is not open; the traveler's profile holds the default of
\* its column, default_checkin_interval INTEGER DEFAULT 5
SettingsParked ==
  /\ profiles = [default_checkin_interval |-> 5]
  /\ checkInInterval = ""

\* no confirmation is open and none was asked
ConfirmParked ==
  /\ showDialog = FALSE
  /\ lastAnswer = "none"

\* the rows handleSubmit inserted for journey j and the contacts in `cs`
CreatedJourney(j) ==
  NewJourneyRow(j, [startName |-> "Current Location", destName |-> "Library",
                    now |-> 0, eta |-> DefaultDuration])

CreatedRows(ids, cs, type) ==
  LET rows(j) == IF j \in ids
                 THEN [i \in 1..Len(cs) |->
                         IF type = "" THEN [journey_id |-> j, contact_id |-> cs[i]]
                         ELSE [journey_id |-> j, contact_id |-> cs[i], type |-> type]]
                 ELSE <<>>
  IN rows(JourneyIdOrder[1]) \o rows(JourneyIdOrder[2])

\* the store after the journeys in `ids` were created for the contacts in `cs`
StoreWithJourneys(ids, cs) ==
  /\ journeys = [j \in JourneyIds |-> IF j \in ids THEN CreatedJourney(j) ELSE NoRow]
  /\ journey_contacts = CreatedRows(ids, cs, "")
  /\ notifications_log = CreatedRows(ids, cs, "start")
  /\ journey_steps = <<>>
  /\ journey_checkins = <<>>
  /\ journey_locations = <<>>

\* The StartJourney page, open on an empty store: the traveler has filled the
\* form in any way and selected any of the contacts.
InitCreate ==
  /\ StoreEmpty
  /\ clock = 1
  /\ form \in Forms
  /\ selectedContacts \in ContactSets
  /\ calculatedDuration = NoNumber
  /\ routeSteps = <<>>
  /\ loading = FALSE
  /\ submit = NoSubmit
  /\ toast = ""
  /\ navigatedTo = NoRoute
  /\ EstimatorParked
  /\ HookParked
  /\ ViewersParked
  /\ ActiveJourneyParked
  /\ TrailParked
  /\ SettingsParked
  /\ ConfirmParked

NextCreate ==
  \/ \E c \in Contacts : toggleContact(c)
  \/ \E d \in RouteDurations \cup {NoNumber}, st \in RouteStepLists : calculateETA(d, st)
  \/ handleSubmit
  \/ \E ok \in BOOLEAN : SubmitInsertJourney(ok)
  \/ \E ok \in BOOLEAN : SubmitInsertContacts(ok)
  \/ \E ok \in BOOLEAN : SubmitInsertNotifications(ok)
  \/ \E ok \in BOOLEAN : SubmitInsertSteps(ok)

SpecCreate == InitCreate /\ [][NextCreate]_vars

\* calculateTravelTime alone: any endpoints, any answers of the two services
InitEstimator ==
  /\ StoreEmpty
  /\ clock = 1
  /\ CreateParked
  /\ EstimatorParked
  /\ HookParked
  /\ ViewersParked
  /\ ActiveJourneyParked
  /\ TrailParked
  /\ SettingsParked
  /\ ConfirmParked

NextEstimator ==
  \/ \E o \in Endpoints, d \in Endpoints : calculateTravelTime(o, d)
  \/ \E a \in GeocodeAnswers : GeocodeOrigin(a)
  \/ \E a \in GeocodeAnswers : GeocodeDestination(a)
  \/ \E a \in RouteAnswers \cup [kind : {"throws", "no route"}] : RouteAnswered(a)

SpecEstimator == InitEstimator /\ [][NextEstimator]_vars

\* useLocationTracking in a component of an active journey: the component
\* mounts, renders with isActive changing, and unmounts; the platform delivers
\* positions and errors to the registered watches; the store executes the
\* updates the callbacks send.
InitTracking ==
  /\ StoreWithJourneys({TrackedJourney}, << "c1", "c2" >>)
  /\ clock = 1
  /\ CreateParked
  /\ EstimatorParked
  /\ HookParked
  /\ ViewersParked
  /\ ActiveJourneyParked
  /\ TrailParked
  /\ SettingsParked
  /\ ConfirmParked

NextTracking ==
  \/ \E a \in BOOLEAN : \E o \in WatchOutcomes({}) : HookMount(a, o)
  \/ \E o \in WatchOutcomes(Cleared) : HookRerender(o)
  \/ HookUnmount
  \/ \E w \in WatchIds, p \in SamplePoints : PositionSuccess(w, p)
  \/ \E w \in WatchIds, c \in {"PERMISSION_DENIED", "TIMEOUT"} : PositionError(w, c)
  \/ \E i \in 1..MaxWritesInFlight, ok \in BOOLEAN : LocationWriteExecuted(i, ok)

SpecTracking == InitTracking /\ [][NextTracking]_vars

\* A tracking page over two journeys: the viewer opens, changes
\* and closes the page while the travelers' pages update the journeys rows.
InitRealtime ==
  /\ StoreWithJourneys(JourneyIds, << "c1" >>)
  /\ clock = 1
  /\ CreateParked
  /\ EstimatorParked
  /\ HookParked
  /\ ViewersParked
  /\ ActiveJourneyParked
  /\ TrailParked
  /\ SettingsParked
  /\ ConfirmParked

NextRealtime ==
  \/ \E v \in Viewers, j \in JourneyIds : ViewerMount(v, j)
  \/ \E v \in Viewers : ChannelJoined(v)
  \/ \E v \in Viewers, j \in JourneyIds : ViewerNavigate(v, j)
  \/ \E v \in Viewers : ViewerUnmount(v)
  \/ \E j \in JourneyIds, patch \in JourneyPatches : JourneyRowUpdate(j, patch)
  \/ \E v \in Viewers : EventHandled(v)
  \/ \E v \in Viewers, i \in 1..MaxFetches, ok \in BOOLEAN : FetchExecuted(v, i, ok)
  \/ \E v \in Viewers, i \in 1..MaxFetches, g \in BOOLEAN : FetchResolved(v, i, g)

SpecRealtime == InitRealtime /\ [][NextRealtime]_vars

\* The ActiveJourney page of an active journey with two notified contacts:
\* the traveler opens and leaves the page, answers the check-in dialog, marks
\* the arrival or the danger; time passes and the interval fires.
InitActive ==
  /\ StoreWithJourneys({TrackedJourney}, << "c1", "c2" >>)
  /\ clock = 0
  /\ CreateParked
  /\ EstimatorParked
  /\ HookParked
  /\ ViewersParked
  /\ ActiveJourneyParked
  /\ TrailParked
  /\ SettingsParked
  /\ ConfirmParked

NextActive ==
  \/ AjMount
  \/ AjUnmount
  \/ \E i \in 1..MaxFetches, ok \in BOOLEAN : FetchJourney(i, ok)
  \/ \E i \in 1..MaxFetches, ok \in BOOLEAN : FetchContacts(i, ok)
  \/ \E i \in 1..MaxFetches, ok \in BOOLEAN : FetchCheckIns(i, ok)
  \/ TimerFires
  \/ Tick
  \/ DismissCheckIn
  \/ \E r \in Responses : handleCheckIn(r)
  \/ \E c \in BOOLEAN : handleArrivedSafely(c)
  \/ \E c \in BOOLEAN : handleNotSafe(c)
  \/ \E i \in 1..MaxHandlerCalls, ok \in WriteOutcomes : OpInsertCheckIn(i, ok)
  \/ \E i \in 1..MaxHandlerCalls, ok \in WriteOutcomes : OpUpdateStatus(i, ok)
  \/ \E i \in 1..MaxHandlerCalls, ok \in WriteOutcomes : OpInsertNotifications(i, ok)

SpecActive == InitActive /\ [][NextActive]_vars

\* The pages with a breadcrumb trail over two journeys: the viewer opens,
\* changes and closes a page while the row of journey TrackedJourney is
\* updated and journey_locations rows are inserted for it.
InitTrail ==
  /\ StoreWithJourneys(JourneyIds, << "c1" >>)
  /\ clock = 1
  /\ CreateParked
  /\ EstimatorParked
  /\ HookParked
  /\ ViewersParked
  /\ ActiveJourneyParked
  /\ TrailParked
  /\ SettingsParked
  /\ ConfirmParked

NextTrail ==
  \/ \E v \in Viewers, j \in JourneyIds, kind \in TrailKinds : TrailMount(v, j, kind)
  \/ \E v \in Viewers, t \in {"journeys", "journey_locations"} : TrailChannelJoined(v, t)
  \/ \E v \in Viewers, j \in JourneyIds : TrailNavigate(v, j)
  \/ \E v \in Viewers : TrailUnmount(v)
  \/ \E patch \in JourneyPatches : JourneyRowUpdate(TrackedJourney, patch)
  \/ LocationInserted(TrackedJourney, NextLatitude(TrackedJourney))
  \/ \E v \in Viewers : TrailJourneyEvent(v)
  \/ \E v \in Viewers : TrailLocationEvent(v)
  \/ \E v \in Viewers, i \in 1..MaxFetches, ok \in BOOLEAN : TrailFetchAnswered(v, i, ok)
  \/ \E v \in Viewers, i \in 1..MaxFetches : TrailFetchResumed(v, i)

SpecTrail == InitTrail /\ [][NextTrail]_vars

\* no page with a breadcrumb trail is open
NoPageOpen == \A v \in Viewers : viewKind[v] = ""

\* A page opened after the changes: the row is updated and the breadcrumbs
\* are inserted before the page is opened, so the page gets no event for
\* them.
NextReconcile ==
  \/ \E v \in Viewers, j \in JourneyIds, kind \in TrailKinds : TrailMount(v, j, kind)
  \/ \E v \in Viewers, t \in {"journeys", "journey_locations"} : TrailChannelJoined(v, t)
  \/ \E patch \in JourneyPatches : NoPageOpen /\ JourneyRowUpdate(TrackedJourney, patch)
  \/ NoPageOpen /\ LocationInserted(TrackedJourney, NextLatitude(TrackedJourney))
  \/ \E v \in Viewers, i \in 1..MaxFetches, ok \in BOOLEAN : TrailFetchAnswered(v, i, ok)
  \/ \E v \in Viewers, i \in 1..MaxFetches : TrailFetchResumed(v, i)

SpecReconcile == InitTrail /\ [][NextReconcile]_vars

\* The pages opened, changed and closed while the position of the journey is
\* updated and breadcrumbs are inserted; a page is opened, and its id changes,
\* when no earlier fetch of the viewer is in flight. Of the selects of a fetch
\* the journeys select may fail (the one whose error ends the fetch).
NextTeardown ==
  \/ \E v \in Viewers, j \in JourneyIds, kind \in TrailKinds :
       viewFetches[v] = <<>> /\ TrailMount(v, j, kind)
  \/ \E v \in Viewers, t \in {"journeys", "journey_locations"} : TrailChannelJoined(v, t)
  \/ \E v \in Viewers, j \in JourneyIds :
       viewFetches[v] = <<>> /\ TrailNavigate(v, j)
  \/ \E v \in Viewers : TrailUnmount(v)
  \/ JourneyRowUpdate(TrackedJourney, "location")
  \/ LocationInserted(TrackedJourney, NextLatitude(TrackedJourney))
  \/ \E v \in Viewers : TrailJourneyEvent(v)
  \/ \E v \in Viewers : TrailLocationEvent(v)
  \/ \E v \in Viewers, i \in 1..MaxFetches, ok \in BOOLEAN :
       /\ i <= Len(viewFetches[v])
       /\ ok \/ AwaitedBy(viewFetches[v][i]) = "journeys"
       /\ TrailFetchAnswered(v, i, ok)
  \/ \E v \in Viewers, i \in 1..MaxFetches : TrailFetchResumed(v, i)

SpecTeardown == InitTrail /\ [][NextTeardown]_vars

\* The ActiveJourney page variant with the manual emergency button, over the
\* same journey.
NextEmergency ==
  \/ NextActive
  \/ \E c \in BOOLEAN : SendEmergencyAlert(c)

SpecEmergency == InitActive /\ [][NextEmergency]_vars

\* ---- TrackJourney after its mount fetch, over a store holding any breadcrumb
\* ---- trail of the tracked journey
InitStats ==
  /\ \E h \in OrderedTrails :
       /\ journey_locations =
            [k \in 1..Len(h) |->
               [journey_id |-> TrackedJourney, latitude |-> h[k].latitude,
                longitude |-> h[k].longitude, timestamp |-> h[k].timestamp]]
       /\ locationHistory = [v \in Viewers |-> h]
       /\ clock = IF h = <<>> THEN 1 ELSE h[Len(h)].timestamp
  /\ journeys = [j \in JourneyIds |-> CreatedJourney(j)]
  /\ journey_contacts = CreatedRows(JourneyIds, << "c1" >>, "")
  /\ notifications_log = CreatedRows(JourneyIds, << "c1" >>, "start")
  /\ journey_steps = <<>>
  /\ journey_checkins = <<>>
  /\ CreateParked
  /\ EstimatorParked
  /\ HookParked
  /\ ActiveJourneyParked
  /\ viewerId = [v \in Viewers |-> TrackedJourney]
  /\ channel = [v \in Viewers |-> "joined"]
  /\ inbox = [v \in Viewers |-> <<>>]
  /\ viewJourney = [v \in Viewers |-> CreatedJourney(TrackedJourney)]
  /\ viewLoading = [v \in Viewers |-> FALSE]
  /\ viewCenter = [v \in Viewers |-> DestinationCenter]
  /\ viewFetches = [v \in Viewers |-> <<>>]
  /\ rowUpdates = [j \in JourneyIds |-> 0]
  /\ eventsHandled = [v \in Viewers |-> 0]
  /\ viewKind = [v \in Viewers |-> "track"]
  /\ locChannel = [v \in Viewers |-> "joined"]
  /\ locInbox = [v \in Viewers |-> <<>>]
  /\ undisturbed = [v \in Viewers |-> TRUE]
  /\ stats = [v \in Viewers |-> NoRow]
  /\ SettingsParked
  /\ ConfirmParked

NextStats == \E v \in Viewers : RenderStats(v)

SpecStats == InitStats /\ [][NextStats]_vars

\* The traveler of journey TrackedJourney moves between the Settings page and
\* the ActiveJourney page, answering no prompt.
NextSettings ==
  \/ \E ok \in BOOLEAN : SettingsMount(ok)
  \/ \E value \in IntervalChoices : setCheckInInterval(value)
  \/ \E ok \in BOOLEAN : handleSave(ok)
  \/ SettingsUnmount
  \/ checkInInterval = "" /\ AjMount
  \/ AjUnmount
  \/ \E i \in 1..MaxFetches, ok \in BOOLEAN : FetchJourney(i, ok)
  \/ \E i \in 1..MaxFetches, ok \in BOOLEAN : FetchContacts(i, ok)
  \/ \E i \in 1..MaxFetches, ok \in BOOLEAN : FetchCheckIns(i, ok)
  \/ TimerFires
  \/ Tick
  \/ DismissCheckIn

SpecSettings == InitActive /\ [][NextSettings]_vars

\* The traveler opens the ActiveJourney page, stays on it and answers the
\* check-in prompts.
NextCheckIns ==
  \/ AjMount
  \/ \E i \in 1..MaxFetches, ok \in BOOLEAN : FetchJourney(i, ok)
  \/ \E i \in 1..MaxFetches, ok \in BOOLEAN : FetchContacts(i, ok)
  \/ \E i \in 1..MaxFetches, ok \in BOOLEAN : FetchCheckIns(i, ok)
  \/ TimerFires
  \/ Tick
  \/ DismissCheckIn
  \/ \E r \in Responses : handleCheckIn(r)
  \/ \E i \in 1..MaxHandlerCalls, ok \in WriteOutcomes : OpInsertCheckIn(i, ok)
  \/ \E i \in 1..MaxHandlerCalls, ok \in WriteOutcomes : OpUpdateStatus(i, ok)
  \/ \E i \in 1..MaxHandlerCalls, ok \in WriteOutcomes : OpInsertNotifications(i, ok)

SpecCheckIns == InitActive /\ [][NextCheckIns]_vars

\* The traveler on the ActiveJourney page uses the buttons that ask for a
\* confirmation: I Arrived Safely, I'm Not Safe and the floating emergency
\* button.
NextConfirm ==
  \/ AjMount
  \/ AjUnmount
  \/ \E i \in 1..MaxFetches, ok \in BOOLEAN : FetchJourney(i, ok)
  \/ \E i \in 1..MaxFetches, ok \in BOOLEAN : FetchContacts(i, ok)
  \/ \E i \in 1..MaxFetches, ok \in BOOLEAN : FetchCheckIns(i, ok)
  \/ \E c \in BOOLEAN : handleArrivedSafely(c)
  \/ \E c \in BOOLEAN : handleNotSafe(c)
  \/ EmergencyButtonClicked
  \/ EmergencyCancelled
  \/ \E c \in BOOLEAN : handleEmergency(c)
  \/ \E i \in 1..MaxHandlerCalls, ok \in WriteOutcomes : OpInsertCheckIn(i, ok)
  \/ \E i \in 1..MaxHandlerCalls, ok \in WriteOutcomes : OpUpdateStatus(i, ok)
  \/ \E i \in 1..MaxHandlerCalls, ok \in WriteOutcomes : OpInsertNotifications(i, ok)

SpecConfirm == InitActive /\ [][NextConfirm]_vars

\* The traveler stays on the ActiveJourney page, answers the check-in prompts
\* or leaves them open, and may mark the journey unsafe.
NextPrompts ==
  \/ NextCheckIns
  \/ \E c \in BOOLEAN : handleNotSafe(c)

SpecPrompts == InitActive /\ [][NextPrompts]_vars

\* The traveler stays on the ActiveJourney page and uses every handler, while
\* the store may answer any write of a handler with an error.
NextFailingWrites ==
  \/ AjMount
  \/ \E i \in 1..MaxFetches, ok \in BOOLEAN : FetchJourney(i, ok)
  \/ \E i \in 1..MaxFetches, ok \in BOOLEAN : FetchContacts(i, ok)
  \/ \E i \in 1..MaxFetches, ok \in BOOLEAN : FetchCheckIns(i, ok)
  \/ TimerFires
  \/ Tick
  \/ DismissCheckIn
  \/ \E r \in Responses : handleCheckIn(r)
  \/ \E c \in BOOLEAN : handleArrivedSafely(c)
  \/ \E c \in BOOLEAN : handleNotSafe(c)
  \/ \E i \in 1..MaxHandlerCalls, ok \in BOOLEAN : OpInsertCheckIn(i, ok)
  \/ \E i \in 1..MaxHandlerCalls, ok \in BOOLEAN : OpUpdateStatus(i, ok)
  \/ \E i \in 1..MaxHandlerCalls, ok \in BOOLEAN : OpInsertNotifications(i, ok)

SpecFailingWrites == InitActive /\ [][NextFailingWrites]_vars

\* useLocationTracking(id, journey?.status === 'active'): the second argument
\* the page passes to the hook in a render
JourneyIsActive == journey # NoRow /\ journey.status = "active"

\* the hook has seen the page's last render: it is mounted with the page and
\* its effect has run for the isActive of that render
HookInSync ==
  /\ hookMounted = ajMounted
  /\ hookMounted => (isActive = JourneyIsActive)

\* The traveler's journey page with its location hook, three minutes after it
\* was opened: the page has loaded the active journey and its contacts, the
\* hook has registered watch 1, and the interval has just opened the check-in
\* prompt.
InitJourneyPage ==
  /\ StoreWithJourneys({TrackedJourney}, << "c1", "c2" >>)
  /\ clock = CheckInInterval
  /\ form = [ startType |-> "current", startPlaceId |-> "", startCustom |-> "",
              destType |-> "place", destPlaceId |-> "", destCustom |-> "",
              destMapAddress |-> "" ]
  /\ selectedContacts = <<>>
  /\ calculatedDuration = NoNumber
  /\ routeSteps = <<>>
  /\ loading = FALSE
  /\ submit = NoSubmit
  /\ toast = ""
  /\ navigatedTo = "/journey"
  /\ EstimatorParked
  /\ hookMounted = TRUE
  /\ isActive = TRUE
  /\ hasCleanup = TRUE
  /\ watchId = 1
  /\ liveWatches = {1}
  /\ clearedWatches = {}
  /\ location = NoLocation
  /\ locationError = ""
  /\ locationWrites = <<>>
  /\ samplesDelivered = 0
  /\ ViewersParked
  /\ ajMounted = TRUE
  /\ journey = journeys[TrackedJourney]
  /\ contacts = JourneyContacts
  /\ checkIns = <<>>
  /\ ajLoading = FALSE
  /\ showCheckInDialog = TRUE
  /\ timerDue = clock + CheckInInterval
  /\ ajFetches = <<>>
  /\ ops = <<>>
  /\ handlerCalls = 0
  /\ TrailParked
  /\ SettingsParked
  /\ ConfirmParked

\* The hook re-runs its effect and unmounts in the render that changes the
\* page, before anything else happens; the watch delivers positions while it
\* is registered; the store executes the writes in flight in any order.
NextJourneyPage ==
  \/ ajMounted /\ hookMounted /\ isActive # JourneyIsActive
       /\ \E o \in WatchOutcomes(Cleared) : HookRerender(o)
  \/ ~ajMounted /\ HookUnmount
  \/ HookInSync /\ \E i \in 1..MaxFetches : FetchJourney(i, TRUE)
  \/ HookInSync /\ \E i \in 1..MaxFetches : FetchContacts(i, TRUE)
  \/ HookInSync /\ \E i \in 1..MaxFetches : FetchCheckIns(i, TRUE)
  \/ HookInSync /\ DismissCheckIn
  \/ HookInSync /\ \E r \in Responses : handleCheckIn(r)
  \/ HookInSync /\ handleArrivedSafely(TRUE)
  \/ HookInSync /\ handleNotSafe(TRUE)
  \/ HookInSync /\ \E w \in WatchIds, p \in SamplePoints : PositionSuccess(w, p)
  \/ HookInSync /\ \E i \in 1..MaxWritesInFlight : LocationWriteExecuted(i, TRUE)
  \/ HookInSync /\ \E i \in 1..MaxHandlerCalls, ok \in WriteOutcomes : OpInsertCheckIn(i, ok)
  \/ HookInSync /\ \E i \in 1..MaxHandlerCalls, ok \in WriteOutcomes : OpUpdateStatus(i, ok)
  \/ HookInSync /\ \E i \in 1..MaxHandlerCalls, ok \in WriteOutcomes : OpInsertNotifications(i, ok)

SpecJourneyPage == InitJourneyPage /\ [][NextJourneyPage]_vars

\* no page is between subscribe() and the join of its journey-locations channel
NoPageJoining == \A v \in Viewers : locChannel[v] # "joining"

\* Pages with a breadcrumb trail stay open while breadcrumbs are inserted for
\* journey TrackedJourney; every select of a fetch returns data, and every
\* breadcrumb is inserted before the page is opened or after its channel has
\* joined, so that an open page is sent an event for every row inserted since.
NextTrailRace ==
  \/ \E v \in Viewers, j \in JourneyIds, kind \in TrailKinds : TrailMount(v, j, kind)
  \/ \E v \in Viewers, t \in {"journeys", "journey_locations"} : TrailChannelJoined(v, t)
  \/ NoPageJoining /\ LocationInserted(TrackedJourney, NextLatitude(TrackedJourney))
  \/ \E v \in Viewers : TrailLocationEvent(v)
  \/ \E v \in Viewers, i \in 1..MaxFetches : TrailFetchAnswered(v, i, TRUE)
  \/ \E v \in Viewers, i \in 1..MaxFetches : TrailFetchResumed(v, i)

SpecTrailRace == InitTrail /\ [][NextTrailRace]_vars

\* ------------------------------------------------------------ claims

\* C1: a submission with no contact selected is rejected with the validation
\* error, starts no insert and writes nothing to the store, whatever the form
\* holds; and every write to the store is made by a submission that captured
\* at least one contact.
C1_ZeroContactsRejected ==
  [][ /\ (handleSubmit /\ selectedContacts = <<>>) =>
           /\ toast' = "Please select at least one contact"
           /\ submit' = NoSubmit
           /\ ~loading'
           /\ UNCHANGED storeVars
      /\ (storeVars' # storeVars) =>
           (submit.pc # "idle" /\ Len(submit.contacts) > 0) ]_vars

\* C1 witness: an otherwise complete form was submitted with no contact
\* selected, the error is shown and the store is still empty.
C1_Witness ==
  /\ selectedContacts = <<>>
  /\ StartName(form) # "" /\ DestName(form) # ""
  /\ toast = "Please select at least one contact"
  /\ submit = NoSubmit
  /\ StoreEmpty

\* the call was for two coordinates and the routing service failed
RoutingFailedForCoords ==
  /\ estPc = "done"
  /\ estArgs.origin.kind = "coords" /\ estArgs.destination.kind = "coords"
  /\ estRouting \in {"throws", "no route"}

C8_RowPerSample ==
  Len(RowsOf(journey_locations, TrackedJourney)) = samplesDelivered

\* C10: when isActive is false or the component is unmounted, no watch the
\* hook registered is still registered; and never more than the watch of the
\* last effect run is.
C10_WatchCleared ==
  /\ (~hookMounted \/ ~isActive) => liveWatches = {}
  /\ liveWatches \subseteq {watchId}

\* C10 witness: the component is unmounted after watches with every id were
\* registered, delivered a position, and were cleared.
C10_Witness ==
  /\ ~hookMounted
  /\ clearedWatches = WatchIds
  /\ samplesDelivered > 0
  /\ liveWatches = {}

\* the journeys rows an update was executed on in this step
UpdatedRows == {j \in JourneyIds : rowUpdates'[j] # rowUpdates[j]}

\* C7: a viewer whose channel has joined with the filter id=eq.X is sent one
\* event by every update of row X and none by an update of another row; an
\* event is sent to a viewer by nothing but an update of the row of its
\* filter; and every event waiting for a viewer's callback is about the row
\* of its page.
C7_EventIffRowUpdated ==
  /\ [](\A v \in Viewers : \A i \in 1..Len(inbox[v]) : inbox[v][i].id = viewerId[v])
  /\ [][ \A v \in Viewers :
           /\ \A j \in UpdatedRows :
                IF channel[v] = "joined" /\ viewerId[v] = j
                THEN inbox'[v] = Append(inbox[v], ChangeEvent(j))
                ELSE inbox'[v] = inbox[v]
           /\ Len(inbox'[v]) > Len(inbox[v]) =>
                (channel[v] = "joined" /\ viewerId[v] \in UpdatedRows) ]_vars

\* C7 witness: the viewer of j1 has handled the one event of the one update
\* of j1, and j2 was updated as well while its channel was joined.
C7_Witness ==
  /\ viewerId["v1"] = "j1" /\ channel["v1"] = "joined"
  /\ rowUpdates["j1"] = 1 /\ rowUpdates["j2"] = 1
  /\ eventsHandled["v1"] = 1
  /\ inbox["v1"] = <<>>

\* the handler call at place i of the calls in flight
IsCall(i, kind, response) ==
  /\ i <= Len(ops)
  /\ ops[i].kind = kind
  /\ ops[i].response = response

\* C2 as stated: in a negative check-in (handleCheckIn('no')) the update sets
\* the stored status to alert_triggered, and the insert adds to
\* notifications_log exactly one danger_alert row for each journey_contacts
\* row of the journey.
C2_NegativeCheckInAlertsEveryContact ==
  [][ \A i \in 1..MaxHandlerCalls :
        IsCall(i, "checkin", "no") =>
          /\ OpUpdateStatus(i, TRUE) =>
               journeys'[TrackedJourney].status = "alert_triggered"
          /\ OpInsertNotifications(i, TRUE) =>
               notifications_log' = notifications_log \o
                  NotificationInserts(JourneyContacts, "danger_alert") ]_vars

\* C3 as stated: in handleArrivedSafely one update sets the stored status to
\* completed_safe and end_time to a timestamp, and the insert adds to
\* notifications_log one arrival_safe row for each journey_contacts row of
\* the journey.
C3_ArrivalCompletesAndNotifies ==
  [][ \A i \in 1..MaxHandlerCalls :
        IsCall(i, "arrived", "") =>
          /\ OpUpdateStatus(i, TRUE) =>
               /\ journeys'[TrackedJourney].status = "completed_safe"
               /\ journeys'[TrackedJourney].end_time # NoNumber
          /\ OpInsertNotifications(i, TRUE) =>
               notifications_log' = notifications_log \o
                  NotificationInserts(JourneyContacts, "arrival_safe") ]_vars

\* C4 as stated: however often handleArrivedSafely is called, the log holds
\* no more arrival_safe rows than after one call: at most one for each
\* contact of the journey.
C4_ArrivalNotDuplicated ==
  \A c \in Contacts :
    Len(SelectSeq(Notifications(TrackedJourney, "arrival_safe"),
                  LAMBDA r : r.contact_id = c)) <= 1

\* C5 as stated: while the page stays mounted and the stored status stays
\* active, prompts fire one interval apart: the time the next prompt is due
\* moves only when the prompt fires, and then by one interval.
C5_OnePromptPerInterval ==
  [][ ( /\ ajMounted /\ ajMounted'
        /\ journeys[TrackedJourney].status = "active"
        /\ journeys'[TrackedJourney].status = "active"
        /\ timerDue # NoNumber /\ timerDue' # NoNumber )
      => \/ timerDue' = timerDue
         \/ /\ timerDue = clock
            /\ showCheckInDialog'
            /\ timerDue' = timerDue + CheckInInterval ]_vars

\* no handler call and no fetch is in flight
Quiescent == ops = <<>> /\ ajFetches = <<>>

\* C6 as stated: once the handlers and fetches have run to their end, no
\* interval is scheduled when the stored status is not active or the page is
\* not mounted.
C6_TimerCancelledOnExit ==
  (Quiescent /\ (~ajMounted \/ journeys[TrackedJourney].status # "active"))
    => timerDue = NoNumber

\* C11 as stated: once the stored status of the journey is completed_safe, no
\* step of any handler of an open page (check-in response, mark-unsafe,
\* emergency alert button, location publish) changes the stored status.
C11_CompletedSafeIsTerminal ==
  [][ journeys[TrackedJourney].status = "completed_safe"
        => journeys'[TrackedJourney].status = "completed_safe" ]_vars

\* C12 as stated: when no submission is in flight, every journey has either
\* its journeys row, its journey_contacts rows and its start rows of
\* notifications_log, or none of them.
C12_CreationAllOrNothing ==
  submit = NoSubmit =>
    \A j \in JourneyIds :
      LET hasRow == journeys[j] # NoRow
          hasContacts == RowsOf(journey_contacts, j) # <<>>
          hasStart == Notifications(j, "start") # <<>>
      IN (hasRow /\ hasContacts /\ hasStart) \/ (~hasRow /\ ~hasContacts /\ ~hasStart)

\* the page of viewer v is open and its fetch has run to the end, while no row
\* of its journey changed and no select of the fetch failed
Reconciled(v) ==
  viewKind[v] # "" /\ LiveFetches(v) = <<>> /\ undisturbed[v]

\* C13: a page with a subscription also fetches on mount: once the fetch of
\* an opened page has run to its end (no select failed, no row changed since
\* the page was opened), the page shows the stored status, the stored
\* position and the stored breadcrumb log of its journey, whatever changes
\* were made before it was opened.
C13_MountFetchReconciles ==
  \A v \in Viewers :
    Reconciled(v) =>
      /\ ~viewLoading[v]
      /\ viewJourney[v] # NoRow
      /\ viewJourney[v].status = journeys[viewerId[v]].status
      /\ viewJourney[v].current_latitude = journeys[viewerId[v]].current_latitude
      /\ viewJourney[v].current_longitude = journeys[viewerId[v]].current_longitude
      /\ locationHistory[v] = StoredTrail(viewerId[v])

\* C13 witness: the status and the position of the journey were changed and
\* breadcrumbs were stored before the page was opened; the page has handled
\* no event and shows all of them.
C13_Witness ==
  /\ Reconciled("v1")
  /\ viewerId["v1"] = TrackedJourney
  /\ eventsHandled["v1"] = 0
  /\ inbox["v1"] = <<>> /\ locInbox["v1"] = <<>>
  /\ journeys[TrackedJourney].status = "alert_triggered"
  /\ Truthy(journeys[TrackedJourney].current_latitude)
  /\ Len(StoredTrail(TrackedJourney)) = MaxLocations
  /\ viewJourney["v1"].status = "alert_triggered"
  /\ viewJourney["v1"].current_latitude = journeys[TrackedJourney].current_latitude
  /\ locationHistory["v1"] = StoredTrail(TrackedJourney)

\* the state of the page of viewer v and of its channels
PageState(v) ==
  << viewJourney[v], viewLoading[v], viewCenter[v], locationHistory[v],
     channel[v], locChannel[v], inbox[v], locInbox[v] >>

\* C14: when no page is open the viewer has no channel and no event waits for
\* a callback; every event that waits for a callback is about the journey of
\* the open page, so none is left from before a change of id; a callback runs
\* for an open page and its journey only; and while the page stays closed
\* nothing changes its state or its channels, whatever its fetches in flight
\* do.
C14_ChannelsRemovedOnTeardown ==
  /\ [](\A v \in Viewers :
          viewKind[v] = "" =>
            /\ channel[v] = "none" /\ locChannel[v] = "none"
            /\ inbox[v] = <<>> /\ locInbox[v] = <<>>)
  /\ [](\A v \in Viewers :
          /\ \A k \in 1..Len(inbox[v]) : inbox[v][k].id = viewerId[v]
          /\ \A k \in 1..Len(locInbox[v]) : locInbox[v][k].id = viewerId[v])
  /\ [][ \A v \in Viewers :
           /\ TrailJourneyEvent(v) =>
                (viewKind[v] # "" /\ Head(inbox[v]).id = viewerId[v])
           /\ TrailLocationEvent(v) =>
                (viewKind[v] # "" /\ Head(locInbox[v]).id = viewerId[v])
           /\ (viewKind[v] = "" /\ viewKind'[v] = "") =>
                PageState(v)' = PageState(v) ]_vars

\* C14 witness: the page was closed while its fetch was in flight and after
\* its callbacks had run; the channels are gone, the fetch is still in
\* flight, and rows were inserted that no callback was called for.
C14_Witness ==
  /\ viewKind["v1"] = ""
  /\ channel["v1"] = "none" /\ locChannel["v1"] = "none"
  /\ viewFetches["v1"] # <<>>
  /\ eventsHandled["v1"] = 1
  /\ Len(journey_locations) = MaxLocations
  /\ locationHistory["v1"] = <<>>

\* the seconds between the first and the last breadcrumb of a list
ElapsedSeconds(history) ==
  (history[Len(history)].timestamp - history[1].timestamp) * 60

\* C15: the journeyStats of a render has distance 0 and average speed 0 for a
\* list of 0 or 1 breadcrumbs, average speed 0 when no time elapsed between the
\* first and the last breadcrumb, and otherwise the total distance as distance
\* and total distance / elapsed seconds as average speed; no quotient it holds
\* has the denominator 0.
C15_JourneyStats ==
  \A v \in Viewers :
    stats[v] # NoRow =>
      LET history == locationHistory[v]
          s == stats[v]
      IN /\ s.avgSpeed.den # 0
         /\ Len(history) < 2 => s.distance = 0 /\ s.avgSpeed.num = 0
         /\ (Len(history) >= 2 /\ ElapsedSeconds(history) = 0) => s.avgSpeed.num = 0
         /\ (Len(history) >= 2 /\ ElapsedSeconds(history) # 0) =>
              /\ s.distance = calculateTotalDistance(history)
              /\ s.avgSpeed.num * ElapsedSeconds(history)
                   = calculateTotalDistance(history) * s.avgSpeed.den

\* C15 witness: the statistics of a list of three breadcrumbs that moved over
\* a positive time were rendered, and so were those of a list whose first and
\* last breadcrumb carry the same time
C15_Witness ==
  /\ stats["v1"] # NoRow
  /\ Len(locationHistory["v1"]) = 3
  /\ ElapsedSeconds(locationHistory["v1"]) > 0
  /\ stats["v1"].distance > 0
  /\ stats["v1"].avgSpeed.num > 0

\* C15 witness of the guarded case: two breadcrumbs of one instant, apart
C15_WitnessZeroElapsed ==
  /\ stats["v1"] # NoRow
  /\ Len(locationHistory["v1"]) = 2
  /\ ElapsedSeconds(locationHistory["v1"]) = 0
  /\ stats["v1"].distance > 0
  /\ stats["v1"].avgSpeed = Zero

\* the page shows the notice of a failed route calculation and its form would
\* pass the validation of handleSubmit
EstimateFailedFormValid ==
  /\ toast = "Could not calculate exact time, using estimate"
  /\ submit = NoSubmit
  /\ navigatedTo = NoRoute
  /\ ~loading
  /\ ~StoreFull
  /\ ValidationError(form, selectedContacts) = ""

\* C16: a failed route calculation does not block the creation. While the page
\* shows the notice of the failure and the form is valid, the submission can be
\* made and sends a journey whose eta is its start plus the default estimate;
\* every journey row ever created has an eta_time, and a row created while the
\* notice shows has eta_time = start_time + DefaultDuration.
C16_EstimateFailureDoesNotBlock ==
  /\ [](EstimateFailedFormValid =>
          ENABLED (/\ handleSubmit
                   /\ submit'.pc = "insertJourney"
                   /\ submit'.eta = submit'.now + DefaultDuration))
  /\ [][\A j \in JourneyIds :
          (journeys[j] = NoRow /\ journeys'[j] # NoRow) =>
            /\ journeys'[j].eta_time # NoNumber
            /\ journeys'[j].start_time # NoNumber
            /\ toast = "Could not calculate exact time, using estimate" =>
                 journeys'[j].eta_time = journeys'[j].start_time + DefaultDuration]_vars

\* C16 witness: after a route was calculated and a later calculation failed, a
\* journey was created with the default estimate and the page reported success
C16_Witness ==
  /\ navigatedTo # NoRoute
  /\ journeys[navigatedTo] # NoRow
  /\ calculatedDuration = DefaultDuration
  /\ routeSteps # <<>>
  /\ journeys[navigatedTo].eta_time = journeys[navigatedTo].start_time + DefaultDuration

\* C17 as stated: whenever the check-in interval is set or set anew, the next
\* prompt is due one stored default_checkin_interval later.
C17_TimerUsesConfiguredInterval ==
  [][ (timerDue' # timerDue /\ timerDue' # NoNumber) =>
        timerDue' = clock + profiles.default_checkin_interval ]_vars

\* C18 as stated: in the mounted view, once a negative check-in has set the
\* stored status to alert_triggered and its handler and refetch have run to
\* their end, the check-in interval is still scheduled.
C18_TimerContinuesAfterAlert ==
  ( /\ ajMounted /\ ~ajLoading /\ Quiescent
    /\ journeys[TrackedJourney].status = "alert_triggered" )
    => timerDue # NoNumber

\* C18 amended: the interval follows the status the view holds. While the view
\* holds a journey that is not active no interval is scheduled, a prompt opens
\* only while the view holds an active journey, and the refetch that stores the
\* alert_triggered row in the view clears the interval.
C18_TimerFollowsViewStatus ==
  /\ []((ajMounted /\ journey # NoRow /\ journey.status # "active")
          => timerDue = NoNumber)
  /\ [][ (~showCheckInDialog /\ showCheckInDialog')
           => (journey # NoRow /\ journey.status = "active" /\ timerDue = clock) ]_vars
  /\ [][ (journey' # journey /\ journey' # NoRow /\ journey'.status = "alert_triggered")
           => timerDue' = NoNumber ]_vars

\* C18 witness: the traveler answered a prompt with no in the mounted view,
\* the handler and its refetch ended, and the view holds the alert_triggered
\* row with no interval scheduled
C18_Witness ==
  /\ ajMounted /\ ~ajLoading /\ Quiescent
  /\ journey # NoRow /\ journey.status = "alert_triggered"
  /\ Len(checkIns) > 0 /\ checkIns[1] = "no"
  /\ timerDue = NoNumber

\* the number of rows of a table that belong to journey j and contact c
RowsFor(table, j, c) ==
  Len(SelectSeq(table, LAMBDA r : r.journey_id = j /\ r.contact_id = c))

\* C19 as stated: once the page has reported success and navigated to the
\* journey, the store holds the journey's row with status active, one
\* journey_contacts row and one start notification for every selected contact
\* and none for any other, and the route steps as rows numbered 1..n in order.
C19_SuccessMeansAllRowsStored ==
  navigatedTo # NoRoute =>
    LET j == navigatedTo
        steps == RowsOf(journey_steps, j)
    IN /\ journeys[j] # NoRow
       /\ journeys[j].status = "active"
       /\ \A c \in Contacts :
            LET expected == IF c \in Members(selectedContacts) THEN 1 ELSE 0
            IN /\ RowsFor(journey_contacts, j, c) = expected
               /\ RowsFor(Notifications(j, "start"), j, c) = expected
       /\ Len(steps) = Len(routeSteps)
       /\ \A k \in 1..Len(steps) :
            /\ steps[k].step_number = k
            /\ steps[k].instruction = routeSteps[k].instruction

\* C20: a step in which the traveler declines a confirmation (the confirm of
\* handleArrivedSafely or of handleNotSafe, or the dialog of the emergency
\* button) writes nothing to the store and starts no handler call: the rows
\* of every table, the journey's status and end_time among them, stay as they
\* are, and so do the calls in flight.
C20_DeclinedConfirmationWritesNothing ==
  [][ (lastAnswer # "cancel" /\ lastAnswer' = "cancel")
        => UNCHANGED << storeVars, ops, handlerCalls >> ]_vars

\* C20 witness: the traveler declined a confirmation on the loaded page of the
\* active journey; no call was ever made and the store holds the journey as
\* it was created
C20_Witness ==
  /\ lastAnswer = "cancel"
  /\ ContentShown
  /\ handlerCalls = 0
  /\ journeys[TrackedJourney] = CreatedJourney(TrackedJourney)
  /\ journey_checkins = <<>>

ErrorCodes == {"PERMISSION_DENIED", "TIMEOUT"}

\* C22: a geolocation error does not stop the sampling. The step in which the
\* hook records an error leaves every registered watch registered and the
\* hook's watch id as it is, and shows the warning when the code is
\* PERMISSION_DENIED; and every position a watch delivers to the mounted hook
\* afterwards is taken as the location, clears the error and is sent to the
\* store as one more journeys update.
C22_ErrorKeepsSampling ==
  /\ [][ (locationError' \in ErrorCodes /\ locationError' # locationError) =>
           /\ liveWatches' = liveWatches
           /\ liveWatches # {}
           /\ watchId' = watchId
           /\ locationError' = "PERMISSION_DENIED" =>
                toast' = "Location permission denied. Please enable location access."
       ]_vars
  /\ [][ (samplesDelivered' # samplesDelivered /\ hookMounted) =>
           /\ locationError' = ""
           /\ location' # NoLocation
           /\ Len(locationWrites') = Len(locationWrites) + 1
           /\ locationWrites'[Len(locationWrites')].current_latitude = location'.lat
       ]_vars

\* C22 witness: after a permission-denied error was shown, the watch delivered
\* a position that cleared the error and was written to the journey's row
C22_Witness ==
  /\ toast = "Location permission denied. Please enable location access."
  /\ hookMounted
  /\ locationError = ""
  /\ location # NoLocation
  /\ liveWatches # {}
  /\ journeys[TrackedJourney].current_latitude = location.lat

PositionFields(row) ==
  << row.current_latitude, row.current_longitude, row.location_updated_at >>

\* the fields of the stored row that the status transitions write
StatusFields(row) == << row.status, row.end_time >>

\* C24: every write to the journey row changes either its position fields or
\* its status and end_time, never both: a location publish leaves status and
\* end_time as they were, and a check-in, not-safe or arrival write leaves the
\* three position fields as they were, in whatever order the store executes
\* the writes in flight.
C24_WritesTouchDisjointFields ==
  [][ LET old == journeys[TrackedJourney]
          new == journeys'[TrackedJourney]
      IN /\ PositionFields(new) # PositionFields(old)
              => StatusFields(new) = StatusFields(old)
         /\ StatusFields(new) # StatusFields(old)
              => PositionFields(new) = PositionFields(old)
    ]_vars

\* C24 witness: a position was published after the page loaded the journey and
\* a status write was executed as well, and the row carries both: the last
\* delivered position and the new status.
C24_Witness ==
  /\ locationWrites = <<>>
  /\ ops = <<>>
  /\ samplesDelivered > 0
  /\ location # NoLocation
  /\ journeys[TrackedJourney].current_latitude = location.lat
  /\ journeys[TrackedJourney].location_updated_at # NoNumber
  /\ journeys[TrackedJourney].status = "completed_safe"
  /\ journeys[TrackedJourney].end_time # NoNumber

\* C25 as stated: once the fetch of an open page has run to its end and every
\* INSERT event sent to the page has been handled, the page's locationHistory
\* is the stored breadcrumb log of its journey: every stored row once, in
\* order, whatever the order of the fetch answers and the events was.
C25_HistoryHoldsEachBreadcrumbOnce ==
  \A v \in Viewers :
    (viewKind[v] # "" /\ locChannel[v] = "joined" /\ viewFetches[v] = <<>>
       /\ locInbox[v] = <<>>)
      => locationHistory[v] = StoredTrail(viewerId[v])

\* C26 as stated: once every location update the hook has sent is completed,
\* the current position of the journey row is the position of the sample the
\* watch delivered last, in whatever order the store executed the updates.
C26_RowHoldsLatestSample ==
  (locationWrites = <<>> /\ location # NoLocation) =>
    /\ journeys[TrackedJourney].current_latitude = location.lat
    /\ journeys[TrackedJourney].current_longitude = location.lng

\* C27 as stated: a position write lands only on a row whose stored status is
\* active: every step that changes the position fields of the journey row
\* starts in a state where the stored status is active.
C27_PositionWritesOnlyWhileActive ==
  [][ PositionFields(journeys'[TrackedJourney]) # PositionFields(journeys[TrackedJourney])
        => journeys[TrackedJourney].status = "active" ]_vars

\* C28 as stated: whenever the stored status of the journey is
\* alert_triggered, the journey has a stored check-in with response no.
C28_AlertHasNegativeCheckIn ==
  (journeys[TrackedJourney] # NoRow
     /\ journeys[TrackedJourney].status = "alert_triggered")
    => \E k \in 1..Len(journey_checkins) :
         /\ journey_checkins[k].journey_id = TrackedJourney
         /\ journey_checkins[k].response = "no"

\* C29 as stated: the notification log holds at most one danger_alert entry
\* for each contact of the journey, whatever the traveler does.
C29_OneDangerAlertPerContact ==
  \A c \in Contacts :
    RowsFor(Notifications(TrackedJourney, "danger_alert"), TrackedJourney, c) <= 1

\* C30: for every journey row, in every state: the end_time is null while the
\* status is active and non-null while it is completed_safe; and no step takes
\* a stored status that is not active back to active.
C30_StatusAndEndTime ==
  /\ [](\A j \in JourneyIds :
          journeys[j] # NoRow =>
            /\ journeys[j].status = "active" => journeys[j].end_time = NoNumber
            /\ journeys[j].status = "completed_safe" => journeys[j].end_time # NoNumber)
  /\ [][ \A j \in JourneyIds :
           (journeys[j] # NoRow /\ journeys[j].status # "active")
             => (journeys'[j] # NoRow /\ journeys'[j].status # "active") ]_vars

\* C30 witness: the journey was marked unsafe and marked arrived, both calls
\* have ended, and the row is completed_safe with the time of the arrival.
C30_Witness ==
  /\ ops = <<>>
  /\ handlerCalls > 1
  /\ journeys[TrackedJourney].status = "completed_safe"
  /\ journeys[TrackedJourney].end_time = clock
  /\ \E k \in 1..Len(journey_checkins) : journey_checkins[k].response = "no"

====
